---- MODULE Spec2Model ----
(***************************************************************************)
(* A model of the mixyt playback daemon (src/src/daemon/mod.rs): the       *)
(* dispatcher that serves one request per connection, the audio worker     *)
(* that owns the AudioPlayer, the playback monitor, the media-key          *)
(* callback, the shared PlaybackState and the AudioCommand channel; and of *)
(* the newline-delimited JSON framing of src/src/ipc/mod.rs.               *)
(***************************************************************************)
EXTENDS Integers, Sequences, FiniteSets, TLC

VARIABLES
    state,      \* the PlaybackState behind Arc<Mutex<..>>
    running,    \* the AtomicBool shared by the three loops
    audio_q,    \* the mpsc channel of AudioCommand, oldest first
    sink,       \* the rodio Sink owned by the AudioPlayer
    player,     \* TRUE when AudioPlayer::new() succeeded (Some(p))
    worker,     \* position of run_audio_thread: "loop" (entering), "recv", "done"
    monitor,    \* position of playback_monitor
    reply,      \* the one-shot reply channels of the monitor's current tick
    main,       \* position of the accept loop: "accept", "done"
    response,   \* the response written on the last connection served
    wire,       \* the codec exchange: value sent, bytes on the socket, value read
    probe,      \* the request served last and the state it was served in
    lock,       \* the thread inside state.lock(), or "none"
    local,      \* local variables of the threads between two of their steps
    files,      \* the socket file and the PID file
    db,         \* the rows of the catalog's tables (src/src/db/mod.rs)
    cli         \* the mixyt process that starts or stops the daemon

vars == <<state, running, audio_q, sink, player, worker, monitor, reply, main,
          response, wire, probe, lock, local, files, db, cli>>

----------------------------------------------------------------------------
(* Bounds of the model. *)

NTracks == 2         \* tracks a client names, one request at a time
NQueueTracks == 1    \* tracks a client names while the three loops interleave
MaxQueueLen == 2     \* length of the queue
MaxChan == 1         \* AudioCommands waiting in the channel
MaxPos == 1          \* seconds a source lasts
MaxStrLen == 2       \* characters of a title or an error message on the wire
MaxBacklog == 2      \* AudioCommands sent before the worker first receives
MaxAdds == 3         \* highest position a playlist row is given

(* Program constants. *)
DefaultVolume == 80
MaxVolume == 100
U8Max == 255
MaxPolls == 50       \* for _ in 0..50, in start_detached and in stop

Tracks == 1..NTracks
NoTrack == 0

\* No catalog opened, no client process: the daemon alone.
NoDb == [tracks |-> {}, playlist_tracks |-> {}, foreign_keys |-> FALSE]
NoCli == [pc |-> "none", polls |-> 0, result |-> "none",
          found |-> FALSE, spawned |-> FALSE, sent |-> FALSE]

RepeatModes == {"Off", "One", "All"}

Min(a, b) == IF a <= b THEN a ELSE b

\* The sequences over S of length at most n.
SeqsUpTo(S, n) == UNION {[1..k -> S] : k \in 0..n}

\* Track lists a client can send in PlayQueue, the empty one included.
TrackLists == SeqsUpTo(Tracks, MaxQueueLen)

\* start_index values a client can send: in range and out of range.
StartIndexes == 0..MaxQueueLen

\* SetVolume levels a client can send (u8): in range, the boundary, out of range.
VolumeInputs == {0, MaxVolume, MaxVolume + 1, U8Max}

\* playback.default_volume values a configuration file can hold (u8).
DefaultVolumes == {DefaultVolume, 200}

SeekInputs == 0..MaxPos

----------------------------------------------------------------------------
(* PlaybackState *)

PlaybackStateNew ==
    [current_track |-> NoTrack, queue |-> <<>>, queue_index |-> 0,
     is_playing |-> FALSE, volume |-> DefaultVolume, position |-> 0,
     shuffle |-> FALSE, repeat |-> "Off"]

(* AudioCommand: op and one argument (a track, a volume, a position; for  *)
(* the two queries, 1 while the monitor still holds the receiving end of  *)
(* the reply channel and 0 once it has dropped it).                       *)
Cmd(op, arg) == [op |-> op, arg |-> arg]

\* An empty reply channel; a CheckFinished reply is 1 (finished) or 0.
NoReply == -1

\* A faulty variant: a handler that returns without a response to write.
RespOk_Unwritten == [kind |-> "", msg |-> "", status |-> PlaybackStateNew]

(* DaemonResponse: Ok, Status(PlaybackState), Error(String). *)
RespOk == [kind |-> "Ok", msg |-> "", status |-> PlaybackStateNew]
RespError(m) == [kind |-> "Error", msg |-> m, status |-> PlaybackStateNew]
RespStatus(s) == [kind |-> "Status", msg |-> "", status |-> s]
NoResponse == [kind |-> "", msg |-> "", status |-> PlaybackStateNew]

\* mpsc::Sender::send succeeds while the receiver (held by the worker) lives.
SendOk == worker # "done"

NoReplies == [pos |-> NoReply, fin |-> NoReply]

----------------------------------------------------------------------------
(* The dispatcher: handle_command, one action per DaemonCommand.  Each     *)
(* handler takes the state lock for its mutation, releases it, and then    *)
(* sends at most one AudioCommand; the send only appends to the channel,   *)
(* so the two are one step here.                                           *)

\* What a `send` adds to the channel: the command, or nothing when it fails.
Sent(c) == IF SendOk THEN <<c>> ELSE <<>>

\* The response of the handlers that report a failed send.
SendResp ==
    IF SendOk THEN RespOk ELSE RespError("Audio thread not running")

Serve(newState, sent, resp) ==
    /\ main = "accept"
    /\ Len(audio_q) + Len(sent) <= MaxChan
    /\ state' = newState
    /\ audio_q' = audio_q \o sent
    /\ response' = resp
    /\ UNCHANGED <<sink, player, worker, monitor, reply, wire>>

\* A faulty variant: Play that marks the track playing before the worker has it.
HandlePlay_MarksPlaying(track) ==
    /\ Serve([state EXCEPT !.current_track = track, !.is_playing = TRUE],
             Sent(Cmd("Play", track)), SendResp)
    /\ UNCHANGED <<running, main>>

HandlePlay(track) ==
    /\ Serve(state, Sent(Cmd("Play", track)), SendResp)
    /\ UNCHANGED <<running, main>>

\* idx = start_index.min(tracks.len() - 1)
\* A faulty variant: PlayQueue that always starts at the first track.
StartIndex_First(tracks, start_index) == 0

StartIndex(tracks, start_index) == Min(start_index, Len(tracks) - 1)

\* A faulty variant: PlayQueue that stores the list before it checks it.
HandlePlayQueue_StoresFirst(tracks, start_index) ==
    /\ IF tracks = <<>>
       THEN Serve([state EXCEPT !.queue = tracks], <<>>, RespError("Queue is empty"))
       ELSE LET idx == StartIndex(tracks, start_index)
            IN  Serve([state EXCEPT !.queue = tracks, !.queue_index = idx],
                      Sent(Cmd("Play", tracks[idx + 1])),
                      SendResp)
    /\ UNCHANGED <<running, main>>

HandlePlayQueue(tracks, start_index) ==
    /\ IF tracks = <<>>
       THEN Serve(state, <<>>, RespError("Queue is empty"))
       ELSE LET idx == StartIndex(tracks, start_index)
            IN  Serve([state EXCEPT !.queue = tracks, !.queue_index = idx],
                      Sent(Cmd("Play", tracks[idx + 1])),
                      SendResp)
    /\ UNCHANGED <<running, main>>

\* A faulty variant: Pause that clears is_playing in the dispatcher.
HandlePause_ClearsPlaying ==
    /\ Serve([state EXCEPT !.is_playing = FALSE], Sent(Cmd("Pause", 0)), RespOk)
    /\ UNCHANGED <<running, main>>

HandlePause ==
    /\ Serve(state, Sent(Cmd("Pause", 0)), RespOk)
    /\ UNCHANGED <<running, main>>

HandleResume ==
    /\ Serve(state, Sent(Cmd("Resume", 0)), RespOk)
    /\ UNCHANGED <<running, main>>

HandleStop ==
    /\ Serve(state, Sent(Cmd("Stop", 0)), RespOk)
    /\ UNCHANGED <<running, main>>

\* The indexes `next_idx` can take: any index of the queue when shuffle is on
\* (random % len), the successor modulo len otherwise.
NextIndexes(s) ==
    IF s.shuffle
    THEN 0..(Len(s.queue) - 1)
    ELSE {(s.queue_index + 1) % Len(s.queue)}

\* Manual Next stops instead of wrapping: !shuffle && next_idx == 0 && repeat == Off
NextStops(s, next_idx) == ~s.shuffle /\ next_idx = 0 /\ s.repeat = "Off"

HandleNext ==
    /\ IF state.queue = <<>>
       THEN Serve(state, <<>>, RespError("Queue is empty"))
       ELSE \E next_idx \in NextIndexes(state) :
              IF NextStops(state, next_idx)
              THEN Serve([state EXCEPT !.is_playing = FALSE, !.current_track = NoTrack],
                         <<>>, RespOk)
              ELSE Serve([state EXCEPT !.queue_index = next_idx],
                         Sent(Cmd("Play", state.queue[next_idx + 1])),
                         SendResp)
    /\ UNCHANGED <<running, main>>

\* A faulty variant: Previous that saturates at 0 instead of wrapping.
PrevIndex_Saturating(s) ==
    IF s.queue_index = 0 THEN 0 ELSE s.queue_index - 1

PrevIndex(s) ==
    IF s.queue_index = 0 THEN Len(s.queue) - 1 ELSE s.queue_index - 1

HandlePrevious ==
    /\ IF state.queue = <<>>
       THEN Serve(state, <<>>, RespError("Queue is empty"))
       ELSE LET prev_idx == PrevIndex(state)
            IN  Serve([state EXCEPT !.queue_index = prev_idx],
                      Sent(Cmd("Play", state.queue[prev_idx + 1])),
                      SendResp)
    /\ UNCHANGED <<running, main>>

\* A faulty variant: Seek that stores the target before the engine has moved.
HandleSeek_WritesPosition(position) ==
    /\ Serve([state EXCEPT !.position = position], Sent(Cmd("Seek", position)), RespOk)
    /\ UNCHANGED <<running, main>>

HandleSeek(position) ==
    /\ Serve(state, Sent(Cmd("Seek", position)), RespOk)
    /\ UNCHANGED <<running, main>>

\* The level the dispatcher forwards: the request's, as received.
ForwardedVolume(volume) == volume

HandleSetVolume(volume) ==
    /\ Serve(state, Sent(Cmd("SetVolume", ForwardedVolume(volume))), RespOk)
    /\ UNCHANGED <<running, main>>

HandleSetShuffle(enabled) ==
    /\ Serve([state EXCEPT !.shuffle = enabled], <<>>, RespOk)
    /\ UNCHANGED <<running, main>>

\* A faulty variant: SetRepeat that also turns shuffle off.
HandleSetRepeat_ResetsShuffle(mode) ==
    /\ Serve([state EXCEPT !.repeat = mode, !.shuffle = FALSE], <<>>, RespOk)
    /\ UNCHANGED <<running, main>>

HandleSetRepeat(mode) ==
    /\ Serve([state EXCEPT !.repeat = mode], <<>>, RespOk)
    /\ UNCHANGED <<running, main>>

HandleQueueAdd(track) ==
    /\ Len(state.queue) < MaxQueueLen
    /\ Serve([state EXCEPT !.queue = Append(@, track)], <<>>, RespOk)
    /\ UNCHANGED <<running, main>>

\* A faulty variant: QueueClear that forgets `s.queue_index = 0`.
HandleQueueClear_KeepsIndex ==
    /\ Serve([state EXCEPT !.queue = <<>>], <<>>, RespOk)
    /\ UNCHANGED <<running, main>>

HandleQueueClear ==
    /\ Serve([state EXCEPT !.queue = <<>>, !.queue_index = 0], <<>>, RespOk)
    /\ UNCHANGED <<running, main>>

\* A faulty variant: GetStatus that answers with a fresh PlaybackState.
HandleGetStatus_Fresh ==
    /\ Serve(state, <<>>, RespStatus(PlaybackStateNew))
    /\ UNCHANGED <<running, main>>

HandleGetStatus ==
    /\ Serve(state, <<>>, RespStatus(state))
    /\ UNCHANGED <<running, main>>

\* A faulty variant: Shutdown after which the accept loop keeps accepting.
HandleShutdown_KeepsAccepting ==
    /\ Serve(state, Sent(Cmd("Stop", 0)), RespOk)
    /\ running' = FALSE
    /\ main' = main

\* running.store(false); send Stop; the accept loop sees the flag after this
\* connection and leaves.
HandleShutdown ==
    /\ Serve(state, Sent(Cmd("Stop", 0)), RespOk)
    /\ running' = FALSE
    /\ main' = "done"

----------------------------------------------------------------------------
(* The AudioPlayer (src/src/audio/mod.rs) over a rodio Sink: src is the    *)
(* source the sink holds (NoTrack when it is empty), paused its pause flag,*)
(* pos its position in seconds and vol the volume it applies.              *)

SinkNew(default_volume) ==
    [src |-> NoTrack, paused |-> FALSE, pos |-> 0, vol |-> Min(default_volume, MaxVolume)]

\* play_file on a file that opens and decodes: clear, append, play.
PlayFile(k, track) == [k EXCEPT !.src = track, !.paused = FALSE, !.pos = 0]
PlayerPause(k) == [k EXCEPT !.paused = TRUE]
PlayerResume(k) == [k EXCEPT !.paused = FALSE]
PlayerStop(k) == [k EXCEPT !.src = NoTrack, !.pos = 0]
\* let vol = volume.min(100)
PlayerSetVolume(k, volume) == [k EXCEPT !.vol = Min(volume, MaxVolume)]
PlayerSeek(k, position) == [k EXCEPT !.pos = position]
\* sink.empty() && !sink.is_paused()
IsFinished(k) == k.src = NoTrack /\ ~k.paused

----------------------------------------------------------------------------
(* The audio worker: run_audio_thread. *)

\* The value the worker mirrors into state.volume after SetVolume(vol).
MirroredVolume(vol) == vol

\* A faulty variant: a loop that never looks at the running flag.
AfterIteration_Forever(waiting) == waiting

\* A faulty variant: a loop that ends after its first iteration.
AfterIteration_Once(waiting) == "done"

\* What a loop does after an iteration: `while running.load(..)`, then the
\* wait that starts the next one.
AfterIteration(waiting) == IF running THEN waiting ELSE "done"

\* The first evaluation of `while running.load(..)`.
WorkerLoop ==
    /\ worker = "loop"
    /\ worker' = AfterIteration("recv")
    /\ UNCHANGED <<state, running, audio_q, sink, player, monitor, reply, main,
                   response, wire, probe, lock, local, files, db, cli>>

\* recv_timeout(100ms) with nothing in the channel: Err(Timeout) => continue
WorkerTimeout ==
    /\ worker = "recv"
    /\ audio_q = <<>>
    /\ worker' = AfterIteration("recv")
    /\ UNCHANGED <<state, running, audio_q, sink, player, monitor, reply, main,
                   response, wire, probe, lock, local, files, db, cli>>

(* What the worker writes to the state, under one lock, after each engine  *)
(* call.                                                                   *)

\* play_file returned Ok
Played(s, track) ==
    [s EXCEPT !.current_track = track, !.is_playing = TRUE, !.position = 0]

\* A faulty variant: a failed play_file that also forgets the current track.
PlayFailed_ClearsTrack(s) ==
    [s EXCEPT !.is_playing = FALSE, !.current_track = NoTrack]

\* play_file returned Err
PlayFailed(s) == [s EXCEPT !.is_playing = FALSE]

Paused(s) == [s EXCEPT !.is_playing = FALSE]
Resumed(s) == [s EXCEPT !.is_playing = TRUE]

\* A faulty variant: Stop that keeps the current track.
Stopped_KeepsTrack(s) == [s EXCEPT !.is_playing = FALSE, !.position = 0]

Stopped(s) ==
    [s EXCEPT !.is_playing = FALSE, !.current_track = NoTrack, !.position = 0]

\* seek returned true
Sought(s, position) == [s EXCEPT !.position = position]

\* The effect of one command on the sink, the state and the reply channels,
\* with `ok` the outcome of play_file or of seek.
Execute(cmd, ok) ==
    CASE cmd.op = "Play" ->
            IF ok
            THEN /\ sink' = PlayFile(sink, cmd.arg)
                 /\ state' = Played(state, cmd.arg)
                 /\ UNCHANGED reply
            ELSE /\ state' = PlayFailed(state)
                 /\ UNCHANGED <<sink, reply>>
      [] cmd.op = "Pause" ->
            /\ sink' = PlayerPause(sink)
            /\ state' = Paused(state)
            /\ UNCHANGED reply
      [] cmd.op = "Resume" ->
            /\ sink' = PlayerResume(sink)
            /\ state' = Resumed(state)
            /\ UNCHANGED reply
      [] cmd.op = "Stop" ->
            /\ sink' = PlayerStop(sink)
            /\ state' = Stopped(state)
            /\ UNCHANGED reply
      [] cmd.op = "SetVolume" ->
            /\ sink' = PlayerSetVolume(sink, cmd.arg)
            /\ state' = [state EXCEPT !.volume = MirroredVolume(cmd.arg)]
            /\ UNCHANGED reply
      [] cmd.op = "Seek" ->
            IF ok
            THEN /\ sink' = PlayerSeek(sink, cmd.arg)
                 /\ state' = Sought(state, cmd.arg)
                 /\ UNCHANGED reply
            ELSE UNCHANGED <<sink, state, reply>>
      [] cmd.op = "CheckFinished" ->
            /\ reply' = IF cmd.arg = 1 THEN [reply EXCEPT !.fin = IF IsFinished(sink) THEN 1 ELSE 0]
                        ELSE reply
            /\ UNCHANGED <<sink, state>>
      [] cmd.op = "GetPosition" ->
            /\ reply' = IF cmd.arg = 1 THEN [reply EXCEPT !.pos = sink.pos]
                        ELSE reply
            /\ UNCHANGED <<sink, state>>

\* A faulty variant: the worker takes the command sent last.
WorkerExecute_Newest ==
    /\ worker = "recv"
    /\ audio_q # <<>>
    /\ player
    /\ \E ok \in BOOLEAN :
         /\ (ok = FALSE) => audio_q[Len(audio_q)].op \in {"Play", "Seek"}
         /\ Execute(audio_q[Len(audio_q)], ok)
    /\ audio_q' = SubSeq(audio_q, 1, Len(audio_q) - 1)
    /\ worker' = AfterIteration("recv")
    /\ UNCHANGED <<running, player, monitor, main, response, wire, probe, lock, local, files, db, cli>>

\* Ok(cmd) with a player: the command is executed.
WorkerExecute ==
    /\ worker = "recv"
    /\ audio_q # <<>>
    /\ player
    /\ \E ok \in BOOLEAN :
         /\ (ok = FALSE) => Head(audio_q).op \in {"Play", "Seek"}
         /\ Execute(Head(audio_q), ok)
    /\ audio_q' = Tail(audio_q)
    /\ worker' = AfterIteration("recv")
    /\ UNCHANGED <<running, player, monitor, main, response, wire, probe, lock, local, files, db, cli>>

\* A faulty variant: without a player the state is still written.
WorkerDiscard_WritesState ==
    /\ worker = "recv"
    /\ audio_q # <<>>
    /\ ~player
    /\ state' = IF Head(audio_q).op = "Resume" THEN Resumed(state) ELSE state
    /\ audio_q' = Tail(audio_q)
    /\ worker' = AfterIteration("recv")
    /\ UNCHANGED <<running, sink, player, monitor, reply, main, response, wire,
                   probe, lock, local, files, db, cli>>

\* Ok(cmd) without a player (AudioPlayer::new failed): the command is dropped.
WorkerDiscard ==
    /\ worker = "recv"
    /\ audio_q # <<>>
    /\ ~player
    /\ audio_q' = Tail(audio_q)
    /\ worker' = AfterIteration("recv")
    /\ UNCHANGED <<state, running, sink, player, monitor, reply, main, response, wire, probe, lock, local, files, db, cli>>

----------------------------------------------------------------------------
(* The rodio output thread: it plays the sink's source and drops it at its *)
(* end.                                                                    *)

SinkAdvance ==
    /\ sink.src # NoTrack
    /\ ~sink.paused
    /\ sink.pos < MaxPos
    /\ sink' = [sink EXCEPT !.pos = @ + 1]
    /\ UNCHANGED <<state, running, audio_q, player, worker, monitor, reply, main,
                   response, wire, probe, lock, local, files, db, cli>>

SinkEnd ==
    /\ sink.src # NoTrack
    /\ ~sink.paused
    /\ sink' = [sink EXCEPT !.src = NoTrack]
    /\ UNCHANGED <<state, running, audio_q, player, worker, monitor, reply, main,
                   response, wire, probe, lock, local, files, db, cli>>

----------------------------------------------------------------------------
(* The playback monitor: playback_monitor. *)

\* A query whose reply channel the monitor has dropped.
Dead(q, op) ==
    [i \in DOMAIN q |-> IF q[i].op = op THEN Cmd(op, 0) ELSE q[i]]

\* The first evaluation of `while running.load(..)`, and the sleep.
MonitorLoop ==
    /\ monitor = "loop"
    /\ monitor' = AfterIteration("tick")
    /\ UNCHANGED <<state, running, audio_q, sink, player, worker, reply, main,
                   response, wire, probe, lock, local, files, db, cli>>

\* should_check, then the GetPosition query on a fresh reply channel.
MonitorTick ==
    /\ monitor = "tick"
    /\ IF state.is_playing /\ state.current_track # NoTrack
       THEN /\ Len(audio_q) + Len(Sent(Cmd("GetPosition", 1))) <= MaxChan
            /\ audio_q' = audio_q \o Sent(Cmd("GetPosition", 1))
            /\ monitor' = "wait_pos"
       ELSE /\ monitor' = AfterIteration("tick")
            /\ UNCHANGED audio_q
    /\ reply' = NoReplies
    /\ UNCHANGED <<state, running, sink, player, worker, main, response, wire, probe, lock, local, files, db, cli>>

\* pos_rx.recv_timeout(100ms): the reply, or the timeout; then the
\* CheckFinished query on a fresh reply channel.
MonitorPosition ==
    /\ monitor = "wait_pos"
    /\ \/ /\ reply.pos # NoReply
          /\ state' = [state EXCEPT !.position = reply.pos]
       \/ /\ reply.pos = NoReply
          /\ UNCHANGED state
    /\ LET q == Dead(audio_q, "GetPosition")
       IN  /\ Len(q) + Len(Sent(Cmd("CheckFinished", 1))) <= MaxChan
           /\ audio_q' = q \o Sent(Cmd("CheckFinished", 1))
    /\ reply' = NoReplies
    /\ monitor' = "wait_fin"
    /\ UNCHANGED <<running, sink, player, worker, main, response, wire, probe, lock, local, files, db, cli>>

\* A faulty variant: a CheckFinished reply that never came counts as finished.
MonitorFinished_TimeoutFinishes ==
    /\ monitor = "wait_fin"
    /\ \/ /\ reply.fin = 1
          /\ monitor' = "finished"
       \/ /\ reply.fin = 0
          /\ monitor' = AfterIteration("tick")
       \/ /\ reply.fin = NoReply
          /\ monitor' = "finished"
    /\ audio_q' = Dead(audio_q, "CheckFinished")
    /\ reply' = NoReplies
    /\ UNCHANGED <<state, running, sink, player, worker, main, response, wire, probe, lock, local, files, db, cli>>

\* finished = sent && rx.recv_timeout(100ms).unwrap_or(false)
MonitorFinished ==
    /\ monitor = "wait_fin"
    /\ \/ /\ reply.fin = 1
          /\ monitor' = "finished"
       \/ /\ reply.fin = 0
          /\ monitor' = AfterIteration("tick")
       \/ /\ reply.fin = NoReply
          /\ monitor' = AfterIteration("tick")
    /\ audio_q' = Dead(audio_q, "CheckFinished")
    /\ reply' = NoReplies
    /\ UNCHANGED <<state, running, sink, player, worker, main, response, wire, probe, lock, local, files, db, cli>>

\* The state after the monitor's handling of a finished track.
TrackFinished(s) ==
    [s EXCEPT !.is_playing = FALSE, !.current_track = NoTrack, !.position = 0]

\* if finished { lock; ... }
MonitorStop ==
    /\ monitor = "finished"
    /\ state' = TrackFinished(state)
    /\ monitor' = AfterIteration("tick")
    /\ UNCHANGED <<running, audio_q, sink, player, worker, reply, main, response, wire, probe, lock, local, files, db, cli>>

----------------------------------------------------------------------------
(* The media-key callback attached in init_media_controls. *)

MediaKeyCommand(event) ==
    CASE event = "Play" -> Cmd("Resume", 0)
      [] event = "Pause" -> Cmd("Pause", 0)
      [] event = "Toggle" -> IF state.is_playing THEN Cmd("Pause", 0) ELSE Cmd("Resume", 0)
      [] event = "Stop" -> Cmd("Stop", 0)

MediaKey(event) ==
    /\ Len(audio_q) + Len(Sent(MediaKeyCommand(event))) <= MaxChan
    /\ audio_q' = audio_q \o Sent(MediaKeyCommand(event))
    /\ UNCHANGED <<state, running, sink, player, worker, monitor, reply, main,
                   response, wire, probe, lock, local, files, db, cli>>

MediaKeyEvents == {"Play", "Pause", "Toggle", "Stop"}

----------------------------------------------------------------------------
(* Daemon::run up to the accept loop. *)

NoRead == [ok |-> FALSE, val |-> <<>>]
NoWire == [stage |-> "idle", sent |-> <<>>, bytes |-> <<>>, read |-> NoRead]

\* No thread is between two steps of a command.
NoLocal == [cmd |-> Cmd("", 0), command |-> Cmd("", 0), event |-> Cmd("", 0)]

\* The files once the listener exists: the PID file is written and the socket
\* file is bound.
Listening == [socket |-> "bound", pid |-> TRUE]

NoProbe == [op |-> "", arg |-> 0, pre |-> PlaybackStateNew, pre_q |-> <<>>]

Startup(default_volume, player_ok) ==
    /\ state = [PlaybackStateNew EXCEPT !.volume = default_volume]
    /\ running = TRUE
    /\ audio_q = <<>>
    /\ sink = SinkNew(default_volume)
    /\ player = player_ok
    /\ worker = "loop"
    /\ monitor = "loop"
    /\ reply = NoReplies
    /\ main = "accept"
    /\ response = NoResponse
    /\ wire = NoWire
    /\ probe = NoProbe
    /\ lock = "none"
    /\ local = NoLocal
    /\ files = Listening
    /\ db = NoDb
    /\ cli = NoCli

Init == \E dv \in DefaultVolumes, ok \in BOOLEAN : Startup(dv, ok)

\* The accept loop serving one connection: any request.
Dispatch ==
    \/ \E t \in Tracks : HandlePlay(t) /\ UNCHANGED <<probe, lock, local, files, db, cli>>
    \/ \E ts \in TrackLists, i \in StartIndexes : HandlePlayQueue(ts, i) /\ UNCHANGED <<probe, lock, local, files, db, cli>>
    \/ HandlePause /\ UNCHANGED <<probe, lock, local, files, db, cli>>
    \/ HandleResume /\ UNCHANGED <<probe, lock, local, files, db, cli>>
    \/ HandleStop /\ UNCHANGED <<probe, lock, local, files, db, cli>>
    \/ HandleNext /\ UNCHANGED <<probe, lock, local, files, db, cli>>
    \/ HandlePrevious /\ UNCHANGED <<probe, lock, local, files, db, cli>>
    \/ \E p \in SeekInputs : HandleSeek(p) /\ UNCHANGED <<probe, lock, local, files, db, cli>>
    \/ \E v \in VolumeInputs : HandleSetVolume(v) /\ UNCHANGED <<probe, lock, local, files, db, cli>>
    \/ \E b \in BOOLEAN : HandleSetShuffle(b) /\ UNCHANGED <<probe, lock, local, files, db, cli>>
    \/ \E m \in RepeatModes : HandleSetRepeat(m) /\ UNCHANGED <<probe, lock, local, files, db, cli>>
    \/ \E t \in Tracks : HandleQueueAdd(t) /\ UNCHANGED <<probe, lock, local, files, db, cli>>
    \/ HandleQueueClear /\ UNCHANGED <<probe, lock, local, files, db, cli>>
    \/ HandleGetStatus /\ UNCHANGED <<probe, lock, local, files, db, cli>>
    \/ HandleShutdown /\ UNCHANGED <<probe, lock, local, files, db, cli>>

Worker == WorkerLoop \/ WorkerTimeout \/ WorkerExecute \/ WorkerDiscard

Monitor == MonitorLoop \/ MonitorTick \/ MonitorPosition \/ MonitorFinished \/ MonitorStop

Next ==
    \/ Dispatch
    \/ Worker
    \/ Monitor
    \/ SinkAdvance
    \/ SinkEnd
    \/ \E e \in MediaKeyEvents : MediaKey(e)

Spec == Init /\ [][Next]_vars

----------------------------------------------------------------------------
(* The daemon serving the queue requests and GetStatus while the worker,   *)
(* the monitor and the output thread run.                                  *)

QueueTracks == 1..NQueueTracks

DispatchQueue ==
    \/ \E ts \in SeqsUpTo(QueueTracks, MaxQueueLen), i \in {0, MaxQueueLen} :
         HandlePlayQueue(ts, i) /\ UNCHANGED <<probe, lock, local, files, db, cli>>
    \/ HandleNext /\ UNCHANGED <<probe, lock, local, files, db, cli>>
    \/ HandlePrevious /\ UNCHANGED <<probe, lock, local, files, db, cli>>
    \/ \E b \in BOOLEAN : HandleSetShuffle(b) /\ UNCHANGED <<probe, lock, local, files, db, cli>>
    \/ \E m \in RepeatModes : HandleSetRepeat(m) /\ UNCHANGED <<probe, lock, local, files, db, cli>>
    \/ \E t \in QueueTracks : HandleQueueAdd(t) /\ UNCHANGED <<probe, lock, local, files, db, cli>>
    \/ HandleQueueClear /\ UNCHANGED <<probe, lock, local, files, db, cli>>
    \/ HandleGetStatus /\ UNCHANGED <<probe, lock, local, files, db, cli>>

NextQueue == DispatchQueue \/ Worker \/ Monitor \/ SinkEnd

InitQueue == \E ok \in BOOLEAN : Startup(DefaultVolume, ok)

SpecQueue == InitQueue /\ [][NextQueue]_vars

----------------------------------------------------------------------------
(* One request served by handle_command, from any state the accept loop    *)
(* can find: the probe keeps the request and the state and channel it was  *)
(* served in.                                                              *)

\* The PlaybackStates the daemon can be in when a connection is accepted.
HandlerStates ==
    {s \in [current_track : {NoTrack} \cup Tracks, queue : TrackLists,
            queue_index : 0..(MaxQueueLen - 1), is_playing : BOOLEAN,
            volume : {DefaultVolume}, position : {0}, shuffle : BOOLEAN,
            repeat : RepeatModes] :
        IF s.queue = <<>> THEN s.queue_index = 0 ELSE s.queue_index < Len(s.queue)}

\* The channels it can find: commands the worker has not received yet.
HandlerChannels == SeqsUpTo({Cmd("Pause", 0)}, MaxChan - 1)

InitHandler ==
    /\ state \in HandlerStates
    /\ audio_q \in HandlerChannels
    /\ running = TRUE
    /\ sink = SinkNew(DefaultVolume)
    /\ player = TRUE
    /\ worker = "recv"
    /\ monitor = "tick"
    /\ reply = NoReplies
    /\ main = "accept"
    /\ response = NoResponse
    /\ wire = NoWire
    /\ probe = NoProbe
    /\ lock = "none"
    /\ local = NoLocal
    /\ files = Listening
    /\ db = NoDb
    /\ cli = NoCli

Served(op, arg) ==
    /\ probe' = [op |-> op, arg |-> arg, pre |-> state, pre_q |-> audio_q]
    /\ UNCHANGED <<lock, local, files, db, cli>>

Unserved == probe = NoProbe

NextHandler ==
    \/ \E t \in Tracks : Unserved /\ HandlePlay(t) /\ Served("Play", t)
    \/ \E ts \in TrackLists, i \in StartIndexes : Unserved /\
         HandlePlayQueue(ts, i) /\ Served("PlayQueue", <<ts, i>>)
    \/ Unserved /\ HandlePause /\ Served("Pause", 0)
    \/ Unserved /\ HandleResume /\ Served("Resume", 0)
    \/ Unserved /\ HandleStop /\ Served("Stop", 0)
    \/ Unserved /\ HandleNext /\ Served("Next", 0)
    \/ Unserved /\ HandlePrevious /\ Served("Previous", 0)
    \/ \E p \in SeekInputs : Unserved /\ HandleSeek(p) /\ Served("Seek", p)
    \/ \E v \in VolumeInputs : Unserved /\ HandleSetVolume(v) /\ Served("SetVolume", v)
    \/ \E b \in BOOLEAN : Unserved /\ HandleSetShuffle(b) /\ Served("SetShuffle", b)
    \/ \E m \in RepeatModes : Unserved /\ HandleSetRepeat(m) /\ Served("SetRepeat", m)
    \/ \E t \in Tracks : Unserved /\ HandleQueueAdd(t) /\ Served("QueueAdd", t)
    \/ Unserved /\ HandleQueueClear /\ Served("QueueClear", 0)
    \/ Unserved /\ HandleGetStatus /\ Served("GetStatus", 0)
    \/ Unserved /\ HandleShutdown /\ Served("Shutdown", 0)

SpecHandler == InitHandler /\ [][NextHandler]_vars

(* The same, with the audio thread gone: run_audio_thread has ended (the   *)
(* thread unwound from inside the audio engine) and dropped the receiver,  *)
(* so every send on the channel returns Err.  This is the state the        *)
(* "Audio thread not running" responses are written for.                   *)
InitHandlerNoWorker ==
    /\ state \in HandlerStates
    /\ audio_q = <<>>
    /\ running = TRUE
    /\ sink = SinkNew(DefaultVolume)
    /\ player = TRUE
    /\ worker = "done"
    /\ monitor = "tick"
    /\ reply = NoReplies
    /\ main = "accept"
    /\ response = NoResponse
    /\ wire = NoWire
    /\ probe = NoProbe
    /\ lock = "none"
    /\ local = NoLocal
    /\ files = Listening
    /\ db = NoDb
    /\ cli = NoCli

SpecHandlerNoWorker == InitHandlerNoWorker /\ [][NextHandler]_vars

----------------------------------------------------------------------------
(* The daemon started with any configured default volume and serving       *)
(* SetVolume and GetStatus while the worker runs.                          *)

DispatchVolume ==
    \/ \E v \in VolumeInputs : HandleSetVolume(v) /\ UNCHANGED <<probe, lock, local, files, db, cli>>
    \/ HandleGetStatus /\ UNCHANGED <<probe, lock, local, files, db, cli>>

NextVolume == DispatchVolume \/ WorkerLoop \/ WorkerTimeout \/ WorkerExecute

InitVolume == \E dv \in DefaultVolumes : Startup(dv, TRUE)

SpecVolume == InitVolume /\ [][NextVolume]_vars

----------------------------------------------------------------------------
(* The daemon serving the playback requests while the worker and the       *)
(* output thread run.                                                      *)

DispatchWorker ==
    \/ \E t \in Tracks : HandlePlay(t) /\ UNCHANGED <<probe, lock, local, files, db, cli>>
    \/ HandlePause /\ UNCHANGED <<probe, lock, local, files, db, cli>>
    \/ HandleResume /\ UNCHANGED <<probe, lock, local, files, db, cli>>
    \/ HandleStop /\ UNCHANGED <<probe, lock, local, files, db, cli>>
    \/ \E p \in SeekInputs : HandleSeek(p) /\ UNCHANGED <<probe, lock, local, files, db, cli>>

NextWorker == DispatchWorker \/ Worker \/ SinkAdvance \/ SinkEnd

InitWorker == \E ok \in BOOLEAN : Startup(DefaultVolume, ok)

SpecWorker == InitWorker /\ [][NextWorker]_vars

----------------------------------------------------------------------------
(* The daemon up to and after a Shutdown request, with the worker and the  *)
(* monitor threads scheduled fairly: each of their waits is bounded        *)
(* (recv_timeout(100ms), sleep(1s)), so a thread that can take a step      *)
(* eventually takes it.                                                    *)

DispatchShutdown ==
    \/ \E t \in QueueTracks : HandlePlay(t) /\ UNCHANGED <<probe, lock, local, files, db, cli>>
    \/ HandleGetStatus /\ UNCHANGED <<probe, lock, local, files, db, cli>>
    \/ HandleShutdown /\ UNCHANGED <<probe, lock, local, files, db, cli>>

NextShutdown == DispatchShutdown \/ Worker \/ Monitor \/ SinkEnd

InitShutdown == \E ok \in BOOLEAN : Startup(DefaultVolume, ok)

SpecShutdown ==
    InitShutdown /\ [][NextShutdown]_vars /\ WF_vars(Worker) /\ WF_vars(Monitor)

----------------------------------------------------------------------------
(* The daemon at the grain of the state lock.  Every `state.lock()` of the *)
(* source is a step that needs the lock free; a critical section with      *)
(* several writes is one step per write, the lock held in between and      *)
(* released with the last; an engine call, a channel send or receive and   *)
(* the response are steps of their own.  The probe keeps the thread that   *)
(* took the last step and the state as of the last release of the lock.    *)

Acts(thread) ==
    probe' = [probe EXCEPT !.op = thread,
                           !.pre = IF lock' = "none" THEN state' ELSE @]

\* The thread goes back to its wait: its local variables are dropped.
Forgets(thread) == local' = [local EXCEPT ![thread] = Cmd("", 0)]

(* handle_command *)

\* Stop: no lock, one send.
StopSend ==
    /\ HandleStop
    /\ UNCHANGED <<lock, local, files, db, cli>>
    /\ Acts("dispatcher")

\* A faulty variant: GetStatus that reads the state without taking the lock.
GetStatusClone_NoLock ==
    /\ HandleGetStatus
    /\ UNCHANGED <<lock, local, files, db, cli>>
    /\ Acts("dispatcher")

\* GetStatus: state.lock().unwrap().clone()
GetStatusClone ==
    /\ lock = "none"
    /\ HandleGetStatus
    /\ UNCHANGED <<lock, local, files, db, cli>>
    /\ Acts("dispatcher")

\* PlayQueue with tracks: idx is computed, then `let mut s = state.lock()`
PlayQueueLock(tracks, start_index) ==
    /\ main = "accept"
    /\ tracks # <<>>
    /\ lock = "none"
    /\ lock' = "dispatcher"
    /\ main' = "pq_lock"
    /\ local' = [local EXCEPT !.command = Cmd("PlayQueue", <<tracks, StartIndex(tracks, start_index)>>)]
    /\ UNCHANGED <<state, running, audio_q, sink, player,
                   worker, monitor, reply, response, wire, files, db, cli>>
    /\ Acts("dispatcher")

\* s.queue = tracks
PlayQueueSetQueue ==
    /\ main = "pq_lock"
    /\ state' = [state EXCEPT !.queue = local.command.arg[1]]
    /\ main' = "pq_queue"
    /\ UNCHANGED <<running, audio_q, sink, player, worker, monitor,
                   reply, response, wire, lock, local, files, db, cli>>
    /\ Acts("dispatcher")

\* A faulty variant: the lock is still held when the block ends.
PlayQueueSetIndex_KeepsLock ==
    /\ main = "pq_queue"
    /\ state' = [state EXCEPT !.queue_index = local.command.arg[2]]
    /\ main' = "pq_send"
    /\ UNCHANGED <<running, audio_q, sink, player, worker, monitor, reply,
                   response, wire, lock, local, files, db, cli>>
    /\ Acts("dispatcher")

\* s.queue_index = idx, and the end of the block
PlayQueueSetIndex ==
    /\ main = "pq_queue"
    /\ state' = [state EXCEPT !.queue_index = local.command.arg[2]]
    /\ lock' = "none"
    /\ main' = "pq_send"
    /\ UNCHANGED <<running, audio_q, sink, player, worker,
                   monitor, reply, response, wire, local, files, db, cli>>
    /\ Acts("dispatcher")

\* send Play(track) and answer
PlayQueueSend ==
    /\ main = "pq_send"
    /\ Len(audio_q) + Len(Sent(Cmd("Play", 0))) <= MaxChan
    /\ audio_q' = audio_q \o Sent(Cmd("Play", local.command.arg[1][local.command.arg[2] + 1]))
    /\ response' = SendResp
    /\ main' = "accept"
    /\ Forgets("command")
    /\ UNCHANGED <<state, running, sink, player, worker,
                   monitor, reply, wire, lock, files, db, cli>>
    /\ Acts("dispatcher")

\* Next: `let mut s = state.lock()`
NextLock ==
    /\ main = "accept"
    /\ lock = "none"
    /\ lock' = "dispatcher"
    /\ main' = "next_lock"
    /\ local' = [local EXCEPT !.command = Cmd("Next", 0)]
    /\ UNCHANGED <<state, running, audio_q, sink, player,
                   worker, monitor, reply, response, wire, files, db, cli>>
    /\ Acts("dispatcher")

\* return Error("Queue is empty"): the guard is dropped
NextEmpty ==
    /\ main = "next_lock"
    /\ state.queue = <<>>
    /\ lock' = "none"
    /\ main' = "next_err"
    /\ UNCHANGED <<state, running, audio_q, sink, player, worker,
                   monitor, reply, response, wire, local, files, db, cli>>
    /\ Acts("dispatcher")

\* s.is_playing = false
NextStop ==
    /\ main = "next_lock"
    /\ state.queue # <<>>
    /\ \E next_idx \in NextIndexes(state) : NextStops(state, next_idx)
    /\ state' = [state EXCEPT !.is_playing = FALSE]
    /\ main' = "next_playing"
    /\ UNCHANGED <<running, audio_q, sink, player, worker, monitor,
                   reply, response, wire, lock, local, files, db, cli>>
    /\ Acts("dispatcher")

\* s.current_track = None; return Ok: the guard is dropped
NextClearTrack ==
    /\ main = "next_playing"
    /\ state' = [state EXCEPT !.current_track = NoTrack]
    /\ lock' = "none"
    /\ main' = "next_ok"
    /\ UNCHANGED <<running, audio_q, sink, player, worker,
                   monitor, reply, response, wire, local, files, db, cli>>
    /\ Acts("dispatcher")

\* s.queue_index = next_idx; s.queue[next_idx].clone(), and the end of the block
NextAdvance ==
    /\ main = "next_lock"
    /\ state.queue # <<>>
    /\ \E next_idx \in NextIndexes(state) :
         /\ ~NextStops(state, next_idx)
         /\ state' = [state EXCEPT !.queue_index = next_idx]
         /\ local' = [local EXCEPT !.command = Cmd("Next", state.queue[next_idx + 1])]
    /\ lock' = "none"
    /\ main' = "next_send"
    /\ UNCHANGED <<running, audio_q, sink, player, worker, monitor, reply,
                   response, wire, files, db, cli>>
    /\ Acts("dispatcher")

\* send Play(next_track) and answer
NextSend ==
    /\ main = "next_send"
    /\ Len(audio_q) + Len(Sent(Cmd("Play", 0))) <= MaxChan
    /\ audio_q' = audio_q \o Sent(Cmd("Play", local.command.arg))
    /\ response' = SendResp
    /\ main' = "accept"
    /\ Forgets("command")
    /\ UNCHANGED <<state, running, sink, player, worker,
                   monitor, reply, wire, lock, files, db, cli>>
    /\ Acts("dispatcher")

\* the response of a Next that returned inside the block
NextRespond ==
    /\ main \in {"next_ok", "next_err"}
    /\ response' = IF main = "next_ok" THEN RespOk ELSE RespError("Queue is empty")
    /\ main' = "accept"
    /\ Forgets("command")
    /\ UNCHANGED <<state, running, audio_q, sink, player,
                   worker, monitor, reply, wire, lock, files, db, cli>>
    /\ Acts("dispatcher")

(* run_audio_thread *)

\* recv_timeout gives Play(track); play_file runs.
RecvPlay ==
    /\ worker = "recv"
    /\ player
    /\ audio_q # <<>>
    /\ Head(audio_q).op = "Play"
    /\ \/ /\ sink' = PlayFile(sink, Head(audio_q).arg)
          /\ worker' = "play_ok"
       \/ /\ sink' = sink
          /\ worker' = "play_err"
    /\ audio_q' = Tail(audio_q)
    /\ local' = [local EXCEPT !.cmd = Head(audio_q)]
    /\ UNCHANGED <<state, running, player, monitor, reply, main, response,
                   wire, lock, files, db, cli>>
    /\ Acts("worker")

\* state.lock().unwrap().is_playing = false
PlayErr ==
    /\ worker = "play_err"
    /\ lock = "none"
    /\ state' = PlayFailed(state)
    /\ worker' = AfterIteration("recv")
    /\ Forgets("cmd")
    /\ UNCHANGED <<running, audio_q, sink, player, monitor,
                   reply, main, response, wire, lock, files, db, cli>>
    /\ Acts("worker")

\* `let mut s = state.lock()`; s.current_track = Some(track)
PlaySetTrack ==
    /\ worker = "play_ok"
    /\ lock = "none"
    /\ lock' = "worker"
    /\ state' = [state EXCEPT !.current_track = local.cmd.arg]
    /\ worker' = "play_track"
    /\ UNCHANGED <<running, audio_q, sink, player, monitor,
                   reply, main, response, wire, local, files, db, cli>>
    /\ Acts("worker")

\* s.is_playing = true
PlaySetPlaying ==
    /\ worker = "play_track"
    /\ state' = [state EXCEPT !.is_playing = TRUE]
    /\ worker' = "play_playing"
    /\ UNCHANGED <<running, audio_q, sink, player, monitor, reply,
                   main, response, wire, lock, local, files, db, cli>>
    /\ Acts("worker")

\* s.position = 0, and the end of the block
PlaySetPosition ==
    /\ worker = "play_playing"
    /\ state' = [state EXCEPT !.position = 0]
    /\ lock' = "none"
    /\ worker' = AfterIteration("recv")
    /\ Forgets("cmd")
    /\ UNCHANGED <<running, audio_q, sink, player, monitor,
                   reply, main, response, wire, files, db, cli>>
    /\ Acts("worker")

\* recv_timeout gives Pause, Resume or Stop; the engine call runs.
RecvControl ==
    /\ worker = "recv"
    /\ player
    /\ audio_q # <<>>
    /\ Head(audio_q).op \in {"Pause", "Resume", "Stop"}
    /\ sink' = CASE Head(audio_q).op = "Pause" -> PlayerPause(sink)
                 [] Head(audio_q).op = "Resume" -> PlayerResume(sink)
                 [] Head(audio_q).op = "Stop" -> PlayerStop(sink)
    /\ worker' = CASE Head(audio_q).op = "Pause" -> "paused"
                   [] Head(audio_q).op = "Resume" -> "resumed"
                   [] Head(audio_q).op = "Stop" -> "stopped"
    /\ audio_q' = Tail(audio_q)
    /\ local' = [local EXCEPT !.cmd = Head(audio_q)]
    /\ UNCHANGED <<state, running, player, monitor, reply, main, response,
                   wire, lock, files, db, cli>>
    /\ Acts("worker")

\* state.lock().unwrap().is_playing = false
PauseSet ==
    /\ worker = "paused"
    /\ lock = "none"
    /\ state' = Paused(state)
    /\ worker' = AfterIteration("recv")
    /\ Forgets("cmd")
    /\ UNCHANGED <<running, audio_q, sink, player, monitor,
                   reply, main, response, wire, lock, files, db, cli>>
    /\ Acts("worker")

\* state.lock().unwrap().is_playing = true
ResumeSet ==
    /\ worker = "resumed"
    /\ lock = "none"
    /\ state' = Resumed(state)
    /\ worker' = AfterIteration("recv")
    /\ Forgets("cmd")
    /\ UNCHANGED <<running, audio_q, sink, player, monitor,
                   reply, main, response, wire, lock, files, db, cli>>
    /\ Acts("worker")

\* `let mut s = state.lock()`; s.is_playing = false
StopSetPlaying ==
    /\ worker = "stopped"
    /\ lock = "none"
    /\ lock' = "worker"
    /\ state' = [state EXCEPT !.is_playing = FALSE]
    /\ worker' = "stop_playing"
    /\ UNCHANGED <<running, audio_q, sink, player, monitor,
                   reply, main, response, wire, local, files, db, cli>>
    /\ Acts("worker")

\* s.current_track = None
StopSetTrack ==
    /\ worker = "stop_playing"
    /\ state' = [state EXCEPT !.current_track = NoTrack]
    /\ worker' = "stop_track"
    /\ UNCHANGED <<running, audio_q, sink, player, monitor, reply,
                   main, response, wire, lock, local, files, db, cli>>
    /\ Acts("worker")

\* s.position = 0, and the end of the block
StopSetPosition ==
    /\ worker = "stop_track"
    /\ state' = [state EXCEPT !.position = 0]
    /\ lock' = "none"
    /\ worker' = AfterIteration("recv")
    /\ Forgets("cmd")
    /\ UNCHANGED <<running, audio_q, sink, player, monitor,
                   reply, main, response, wire, files, db, cli>>
    /\ Acts("worker")

\* recv_timeout gives a query of the monitor: the reply is posted, no lock.
RecvQuery ==
    /\ worker = "recv"
    /\ player
    /\ audio_q # <<>>
    /\ Head(audio_q).op \in {"GetPosition", "CheckFinished"}
    /\ Execute(Head(audio_q), TRUE)
    /\ audio_q' = Tail(audio_q)
    /\ worker' = AfterIteration("recv")
    /\ UNCHANGED <<running, player, monitor, main, response, wire, lock, local, files, db, cli>>
    /\ Acts("worker")

(* playback_monitor *)

\* should_check, read inside a block that takes and drops the lock
TickCheck ==
    /\ monitor = "tick"
    /\ lock = "none"
    /\ monitor' = IF state.is_playing /\ state.current_track # NoTrack
                  THEN "send_pos" ELSE AfterIteration("tick")
    /\ UNCHANGED <<state, running, audio_q, sink, player, worker, reply,
                   main, response, wire, lock, local, files, db, cli>>
    /\ Acts("monitor")

\* audio_tx.send(GetPosition(pos_tx)) on a fresh reply channel
TickSendPosition ==
    /\ monitor = "send_pos"
    /\ Len(audio_q) + Len(Sent(Cmd("GetPosition", 1))) <= MaxChan
    /\ audio_q' = audio_q \o Sent(Cmd("GetPosition", 1))
    /\ reply' = NoReplies
    /\ monitor' = "wait_pos"
    /\ UNCHANGED <<state, running, sink, player, worker,
                   main, response, wire, lock, local, files, db, cli>>
    /\ Acts("monitor")

\* pos_rx.recv_timeout(100ms): the reply, or the timeout
TickRecvPosition ==
    /\ monitor = "wait_pos"
    /\ audio_q' = Dead(audio_q, "GetPosition")
    /\ monitor' = IF reply.pos # NoReply THEN "write_pos" ELSE "send_fin"
    /\ UNCHANGED <<state, running, sink, player, worker, reply,
                   main, response, wire, lock, local, files, db, cli>>
    /\ Acts("monitor")

\* state.lock().unwrap().position = pos
TickSetPosition ==
    /\ monitor = "write_pos"
    /\ lock = "none"
    /\ state' = [state EXCEPT !.position = reply.pos]
    /\ monitor' = "send_fin"
    /\ UNCHANGED <<running, audio_q, sink, player, worker, reply,
                   main, response, wire, lock, local, files, db, cli>>
    /\ Acts("monitor")

\* audio_tx.send(CheckFinished(tx)) on a fresh reply channel
TickSendFinished ==
    /\ monitor = "send_fin"
    /\ Len(audio_q) + Len(Sent(Cmd("CheckFinished", 1))) <= MaxChan
    /\ audio_q' = audio_q \o Sent(Cmd("CheckFinished", 1))
    /\ reply' = NoReplies
    /\ monitor' = "wait_fin"
    /\ UNCHANGED <<state, running, sink, player, worker,
                   main, response, wire, lock, local, files, db, cli>>
    /\ Acts("monitor")

\* rx.recv_timeout(100ms).unwrap_or(false)
TickRecvFinished ==
    /\ monitor = "wait_fin"
    /\ audio_q' = Dead(audio_q, "CheckFinished")
    /\ monitor' = IF reply.fin = 1 THEN "finished" ELSE AfterIteration("tick")
    /\ reply' = NoReplies
    /\ UNCHANGED <<state, running, sink, player, worker,
                   main, response, wire, lock, local, files, db, cli>>
    /\ Acts("monitor")

\* `let mut s = state.lock()`; s.is_playing = false
FinishedSetPlaying ==
    /\ monitor = "finished"
    /\ lock = "none"
    /\ lock' = "monitor"
    /\ state' = [state EXCEPT !.is_playing = FALSE]
    /\ monitor' = "fin_playing"
    /\ UNCHANGED <<running, audio_q, sink, player, worker,
                   reply, main, response, wire, local, files, db, cli>>
    /\ Acts("monitor")

\* s.current_track = None
FinishedSetTrack ==
    /\ monitor = "fin_playing"
    /\ state' = [state EXCEPT !.current_track = NoTrack]
    /\ monitor' = "fin_track"
    /\ UNCHANGED <<running, audio_q, sink, player, worker, reply,
                   main, response, wire, lock, local, files, db, cli>>
    /\ Acts("monitor")

\* s.position = 0, and the end of the block
FinishedSetPosition ==
    /\ monitor = "fin_track"
    /\ state' = [state EXCEPT !.position = 0]
    /\ lock' = "none"
    /\ monitor' = AfterIteration("tick")
    /\ UNCHANGED <<running, audio_q, sink, player, worker,
                   reply, main, response, wire, local, files, db, cli>>
    /\ Acts("monitor")

(* The media-key callback, MediaControlEvent::Toggle *)

\* let is_playing = state_clone.lock().unwrap().is_playing
ToggleRead ==
    /\ local.event.op = ""
    /\ lock = "none"
    /\ local' = [local EXCEPT !.event = MediaKeyCommand("Toggle")]
    /\ UNCHANGED <<state, running, audio_q, sink, player, worker,
                   monitor, reply, main, response, wire, lock, files, db, cli>>
    /\ Acts("media_key")

\* tx.send(Pause) or tx.send(Resume)
ToggleSend ==
    /\ local.event.op # ""
    /\ Len(audio_q) + Len(Sent(local.event)) <= MaxChan
    /\ audio_q' = audio_q \o Sent(local.event)
    /\ local' = [local EXCEPT !.event = Cmd("", 0)]
    /\ UNCHANGED <<state, running, sink, player, worker, monitor,
                   reply, main, response, wire, lock, files, db, cli>>
    /\ Acts("media_key")

DispatchLock ==
    \/ StopSend
    \/ \E ts \in [1..MaxQueueLen -> QueueTracks], i \in {0, MaxQueueLen} : PlayQueueLock(ts, i)
    \/ PlayQueueSetQueue
    \/ PlayQueueSetIndex
    \/ PlayQueueSend
    \/ NextLock
    \/ NextEmpty
    \/ NextStop
    \/ NextClearTrack
    \/ NextAdvance
    \/ NextSend
    \/ NextRespond

WorkerLock ==
    \/ WorkerLoop
    \/ WorkerTimeout
    \/ RecvPlay
    \/ PlayErr
    \/ PlaySetTrack
    \/ PlaySetPlaying
    \/ PlaySetPosition
    \/ RecvControl
    \/ PauseSet
    \/ ResumeSet
    \/ StopSetPlaying
    \/ StopSetTrack
    \/ StopSetPosition
    \/ RecvQuery

MonitorLock ==
    \/ MonitorLoop
    \/ TickCheck
    \/ TickSendPosition
    \/ TickRecvPosition
    \/ TickSetPosition
    \/ TickSendFinished
    \/ TickRecvFinished
    \/ FinishedSetPlaying
    \/ FinishedSetTrack
    \/ FinishedSetPosition

MediaKeyLock == ToggleRead \/ ToggleSend

NextLocks == DispatchLock \/ WorkerLock \/ MonitorLock \/ MediaKeyLock \/ SinkEnd

InitLock == Startup(DefaultVolume, TRUE)

SpecLock == InitLock /\ [][NextLocks]_vars

(* The same grain with a client that asks for the status while PlayQueue   *)
(* and Stop requests, the worker and the monitor write the state.          *)

DispatchStatus ==
    \/ GetStatusClone
    \/ StopSend
    \/ \E ts \in [1..MaxQueueLen -> QueueTracks], i \in {0, MaxQueueLen} : PlayQueueLock(ts, i)
    \/ PlayQueueSetQueue
    \/ PlayQueueSetIndex
    \/ PlayQueueSend

WorkerStatus ==
    \/ WorkerLoop
    \/ WorkerTimeout
    \/ RecvPlay
    \/ PlayErr
    \/ PlaySetTrack
    \/ PlaySetPlaying
    \/ PlaySetPosition
    \/ RecvControl
    \/ StopSetPlaying
    \/ StopSetTrack
    \/ StopSetPosition
    \/ RecvQuery

NextStatus == DispatchStatus \/ WorkerStatus \/ MonitorLock \/ SinkEnd

InitStatus == Startup(DefaultVolume, TRUE)

SpecStatus == InitStatus /\ [][NextStatus]_vars

----------------------------------------------------------------------------
(* The IPC codec: serde_json::to_string of a derived Serialize value, the  *)
(* line written with writeln!, read back with read_line and given to       *)
(* serde_json::from_str.  Text is a sequence of characters; a variant or   *)
(* field name, a literal (true, false, null) and a punctuation mark each   *)
(* count as one character.                                                 *)

Q == "\""
BS == "\\"
NL == "\n"
Bad == "!"    \* no JSON text starts with it: what is left of a failed parse

\* Characters a title, a path or a message may hold.
Chars == {"a", "n", Q, BS, NL}
Strs == SeqsUpTo(Chars, MaxStrLen)

\* A faulty variant: an escape that leaves the line feed as it is.
EscapeChar_RawNewline(c) ==
    CASE c = Q -> <<BS, Q>>
      [] c = BS -> <<BS, BS>>
      [] OTHER -> <<c>>

\* serde_json's escapes of the quote, the backslash and the line feed.
EscapeChar(c) ==
    CASE c = Q -> <<BS, Q>>
      [] c = BS -> <<BS, BS>>
      [] c = NL -> <<BS, "n">>
      [] OTHER -> <<c>>

RECURSIVE Escape(_)
Escape(s) == IF Len(s) = 0 THEN <<>> ELSE EscapeChar(Head(s)) \o Escape(Tail(s))

EncStr(s) == <<Q>> \o Escape(s) \o <<Q>>
EncName(n) == <<Q, n, Q>>

DigitChars == <<"0", "1", "2", "3", "4", "5", "6", "7", "8", "9">>
IsDigit(c) == \E i \in 1..10 : DigitChars[i] = c
DigitVal(c) == (CHOOSE i \in 1..10 : DigitChars[i] = c) - 1

RECURSIVE EncNat(_)
EncNat(n) ==
    IF n < 10 THEN <<DigitChars[n + 1]>>
    ELSE EncNat(n \div 10) \o <<DigitChars[(n % 10) + 1]>>

EncBool(b) == <<IF b THEN "true" ELSE "false">>

\* Option<String>: <<>> is None, <<s>> is Some(s).
EncOptStr(o) == IF Len(o) = 0 THEN <<"null">> ELSE EncStr(o[1])

\* Uuid and DateTime<Utc> are written as strings; here, of the digits of a number.
EncNumStr(n) == <<Q>> \o EncNat(n) \o <<Q>>

EncTrack(t) ==
    <<"{">> \o EncName("id") \o <<":">> \o EncNumStr(t.id)
    \o <<",">> \o EncName("url") \o <<":">> \o EncStr(t.url)
    \o <<",">> \o EncName("title") \o <<":">> \o EncStr(t.title)
    \o <<",">> \o EncName("alias") \o <<":">> \o EncOptStr(t.alias)
    \o <<",">> \o EncName("duration") \o <<":">> \o EncNat(t.duration)
    \o <<",">> \o EncName("added_at") \o <<":">> \o EncNumStr(t.added_at)
    \o <<",">> \o EncName("file_path") \o <<":">> \o EncStr(t.file_path)
    \o <<",">> \o EncName("available") \o <<":">> \o EncBool(t.available)
    \o <<"}">>

RECURSIVE EncTrackItems(_)
EncTrackItems(ts) ==
    IF Len(ts) = 0 THEN <<>>
    ELSE IF Len(ts) = 1 THEN EncTrack(ts[1])
    ELSE EncTrack(ts[1]) \o <<",">> \o EncTrackItems(Tail(ts))

EncTracks(ts) == <<"[">> \o EncTrackItems(ts) \o <<"]">>

\* Option<Track>: <<>> is None, <<t>> is Some(t).
EncOptTrack(o) == IF Len(o) = 0 THEN <<"null">> ELSE EncTrack(o[1])

EncState(s) ==
    <<"{">> \o EncName("current_track") \o <<":">> \o EncOptTrack(s.current_track)
    \o <<",">> \o EncName("queue") \o <<":">> \o EncTracks(s.queue)
    \o <<",">> \o EncName("queue_index") \o <<":">> \o EncNat(s.queue_index)
    \o <<",">> \o EncName("is_playing") \o <<":">> \o EncBool(s.is_playing)
    \o <<",">> \o EncName("volume") \o <<":">> \o EncNat(s.volume)
    \o <<",">> \o EncName("position") \o <<":">> \o EncNat(s.position)
    \o <<",">> \o EncName("shuffle") \o <<":">> \o EncBool(s.shuffle)
    \o <<",">> \o EncName("repeat") \o <<":">> \o EncName(s.repeat)
    \o <<"}">>

UnitCommands == {"Pause", "Resume", "Stop", "Next", "Previous", "QueueClear",
                 "GetStatus", "Shutdown"}

\* An externally tagged struct variant with one field: {"Tag":{"field":value}}
EncVariant1(tag, field, value) ==
    <<"{">> \o EncName(tag) \o <<":", "{">> \o EncName(field) \o <<":">> \o value
    \o <<"}", "}">>

\* DaemonCommand, as #[derive(Serialize)] writes it.
EncCommand(c) ==
    CASE c.tag \in UnitCommands -> EncName(c.tag)
      [] c.tag \in {"Play", "QueueAdd"} -> EncVariant1(c.tag, "track", EncTrack(c.track))
      [] c.tag = "PlayQueue" ->
            <<"{">> \o EncName("PlayQueue") \o <<":", "{">>
            \o EncName("tracks") \o <<":">> \o EncTracks(c.tracks)
            \o <<",">> \o EncName("start_index") \o <<":">> \o EncNat(c.start_index)
            \o <<"}", "}">>
      [] c.tag = "Seek" -> EncVariant1("Seek", "position", EncNat(c.position))
      [] c.tag = "SetVolume" -> EncVariant1("SetVolume", "volume", EncNat(c.volume))
      [] c.tag = "SetShuffle" -> EncVariant1("SetShuffle", "enabled", EncBool(c.enabled))
      [] c.tag = "SetRepeat" -> EncVariant1("SetRepeat", "mode", EncName(c.mode))

\* DaemonResponse: "Ok", {"Status":{..}}, {"Error":".."}
EncResponse(r) ==
    CASE r.tag = "Ok" -> EncName("Ok")
      [] r.tag = "Status" -> <<"{">> \o EncName("Status") \o <<":">> \o EncState(r.state) \o <<"}">>
      [] r.tag = "Error" -> <<"{">> \o EncName("Error") \o <<":">> \o EncStr(r.message) \o <<"}">>

\* writeln!(writer, "{msg}")
WriteLine(text) == text \o <<NL>>

\* read_line: up to and including the first line feed, or all there is.
ReadLine(bytes) ==
    LET feeds == {i \in 1..Len(bytes) : bytes[i] = NL}
    IN  IF feeds = {} THEN bytes
        ELSE SubSeq(bytes, 1, CHOOSE i \in feeds : \A j \in feeds : i <= j)

(* The deserializer.  A parser takes the text left to read and gives the   *)
(* value it read and the text after it; a failed parse leaves <<Bad>>,     *)
(* which every later parser fails on in turn.                              *)

Failed == [val |-> <<>>, rest |-> <<Bad>>]
Drop(b, n) == SubSeq(b, n + 1, Len(b))

\* one punctuation mark or literal
PSep(b, t) == IF Len(b) > 0 /\ Head(b) = t THEN Tail(b) ELSE <<Bad>>

\* "name":
PKey(b, name) ==
    IF Len(b) >= 4 /\ SubSeq(b, 1, 4) = <<Q, name, Q, ":">> THEN Drop(b, 4) ELSE <<Bad>>

\* The characters of a string after its opening quote; acc is what was read.
RECURSIVE StrBody(_, _)
StrBody(b, acc) ==
    IF Len(b) = 0 THEN Failed
    ELSE IF Head(b) = Q THEN [val |-> acc, rest |-> Tail(b)]
    ELSE IF Head(b) = BS THEN
        IF Len(b) < 2 THEN Failed
        ELSE IF b[2] = "n" THEN StrBody(Drop(b, 2), Append(acc, NL))
        ELSE IF b[2] \in {Q, BS} THEN StrBody(Drop(b, 2), Append(acc, b[2]))
        ELSE Failed
    ELSE IF Head(b) \in {NL, Bad} THEN Failed
    ELSE StrBody(Tail(b), Append(acc, Head(b)))

PStr(b) == IF Len(b) > 0 /\ Head(b) = Q THEN StrBody(Tail(b), <<>>) ELSE Failed

RECURSIVE NatBody(_, _)
NatBody(b, acc) ==
    IF Len(b) > 0 /\ IsDigit(Head(b)) THEN NatBody(Tail(b), acc * 10 + DigitVal(Head(b)))
    ELSE [val |-> acc, rest |-> b]

PNat(b) == IF Len(b) > 0 /\ IsDigit(Head(b)) THEN NatBody(b, 0) ELSE Failed

\* volume: u8
PU8(b) == LET n == PNat(b) IN IF n.rest # <<Bad>> /\ n.val <= U8Max THEN n ELSE Failed

PBool(b) ==
    IF Len(b) > 0 /\ Head(b) \in {"true", "false"}
    THEN [val |-> Head(b) = "true", rest |-> Tail(b)]
    ELSE Failed

\* a Uuid or a DateTime<Utc> from the string it was written as
PNumStr(b) ==
    LET s == PStr(b)
        n == PNat(s.val)
    IN  IF s.rest # <<Bad>> /\ n.rest = <<>> THEN [val |-> n.val, rest |-> s.rest]
        ELSE Failed

\* a unit variant of an enum, or a field name, read as a string
PName(b, names) ==
    LET s == PStr(b)
    IN  IF s.rest # <<Bad>> /\ Len(s.val) = 1 /\ s.val[1] \in names
        THEN [val |-> s.val[1], rest |-> s.rest]
        ELSE Failed

(* The derived Deserialize of each type, from its declaration: a struct is *)
(* an object of its fields in order, an enum is externally tagged.         *)

TrackFields ==
    << <<"id", "Uuid">>, <<"url", "String">>, <<"title", "String">>,
       <<"alias", "Option<String>">>, <<"duration", "u64">>,
       <<"added_at", "DateTime">>, <<"file_path", "String">>,
       <<"available", "bool">> >>

PlaybackStateFields ==
    << <<"current_track", "Option<Track>">>, <<"queue", "Vec<Track>">>,
       <<"queue_index", "usize">>, <<"is_playing", "bool">>, <<"volume", "u8">>,
       <<"position", "u64">>, <<"shuffle", "bool">>, <<"repeat", "RepeatMode">> >>

\* The fields of each variant of DaemonCommand that has any.
CommandFields ==
    [Play |-> << <<"track", "Track">> >>,
     PlayQueue |-> << <<"tracks", "Vec<Track>">>, <<"start_index", "usize">> >>,
     Seek |-> << <<"position", "u64">> >>,
     SetVolume |-> << <<"volume", "u8">> >>,
     SetShuffle |-> << <<"enabled", "bool">> >>,
     SetRepeat |-> << <<"mode", "RepeatMode">> >>,
     QueueAdd |-> << <<"track", "Track">> >>]

\* The content of each variant of DaemonResponse that has one, and the name
\* the value is kept under here.
ResponseContent ==
    [Status |-> <<"state", "PlaybackState">>, Error |-> <<"message", "String">>]

RECURSIVE Parse(_, _), PFields(_, _, _), PItems(_, _)

\* The fields of a struct after its opening brace; acc is the record so far.
PFields(fields, b, acc) ==
    LET f == Head(fields)
        v == Parse(f[2], PKey(b, f[1]))
        rec == acc @@ (f[1] :> v.val)
    IN  IF v.rest = <<Bad>> THEN Failed
        ELSE IF Len(fields) = 1 THEN [val |-> rec, rest |-> PSep(v.rest, "}")]
        ELSE PFields(Tail(fields), PSep(v.rest, ","), rec)

\* The items of a Vec<Track> after its opening bracket.
PItems(b, acc) ==
    LET t == Parse("Track", b)
    IN  IF t.rest = <<Bad>> THEN Failed
        ELSE IF Len(t.rest) > 0 /\ Head(t.rest) = ","
             THEN PItems(Tail(t.rest), Append(acc, t.val))
        ELSE [val |-> Append(acc, t.val), rest |-> PSep(t.rest, "]")]

Parse(ty, b) ==
    CASE ty = "String" -> PStr(b)
      [] ty \in {"u64", "usize"} -> PNat(b)
      [] ty = "u8" -> PU8(b)
      [] ty = "bool" -> PBool(b)
      [] ty \in {"Uuid", "DateTime"} -> PNumStr(b)
      [] ty = "RepeatMode" -> PName(b, RepeatModes)
      [] ty = "Track" -> PFields(TrackFields, PSep(b, "{"), <<>>)
      [] ty = "PlaybackState" -> PFields(PlaybackStateFields, PSep(b, "{"), <<>>)
      [] ty = "Vec<Track>" ->
            LET open == PSep(b, "[")
            IN  IF Len(open) > 0 /\ Head(open) = "]"
                THEN [val |-> <<>>, rest |-> Tail(open)]
                ELSE PItems(open, <<>>)
      [] ty \in {"Option<String>", "Option<Track>"} ->
            IF Len(b) > 0 /\ Head(b) = "null" THEN [val |-> <<>>, rest |-> Tail(b)]
            ELSE LET v == Parse(IF ty = "Option<String>" THEN "String" ELSE "Track", b)
                 IN  [val |-> <<v.val>>, rest |-> v.rest]
      [] ty = "DaemonCommand" ->
            IF Len(b) > 0 /\ Head(b) = Q THEN
                LET tag == PName(b, UnitCommands)
                IN  [val |-> [tag |-> tag.val], rest |-> tag.rest]
            ELSE
                LET tag == PName(PSep(b, "{"), DOMAIN CommandFields)
                    v == PFields(CommandFields[tag.val],
                                 PSep(PSep(tag.rest, ":"), "{"), [tag |-> tag.val])
                IN  IF tag.rest = <<Bad>> THEN Failed
                    ELSE [val |-> v.val, rest |-> PSep(v.rest, "}")]
      [] ty = "DaemonResponse" ->
            IF Len(b) > 0 /\ Head(b) = Q THEN
                LET tag == PName(b, {"Ok"})
                IN  [val |-> [tag |-> tag.val], rest |-> tag.rest]
            ELSE
                LET tag == PName(PSep(b, "{"), DOMAIN ResponseContent)
                    c == ResponseContent[tag.val]
                    v == Parse(c[2], PSep(tag.rest, ":"))
                IN  IF tag.rest = <<Bad>> THEN Failed
                    ELSE [val |-> [tag |-> tag.val] @@ (c[1] :> v.val),
                          rest |-> PSep(v.rest, "}")]

\* serde_json::from_str: one value, then nothing but white space.
FromStr(line, ty) ==
    LET r == Parse(ty, line)
    IN  IF \A i \in 1..Len(r.rest) : r.rest[i] = NL
        THEN [ok |-> TRUE, val |-> r.val]
        ELSE NoRead

(* The values put on the wire. *)

WireTrack(title, alias, duration, available) ==
    [id |-> 12, url |-> <<"a">>, title |-> title, alias |-> alias,
     duration |-> duration, added_at |-> 305, file_path |-> <<BS, "a">>,
     available |-> available]

WireNats == {0, 10, U8Max}
WireAliases == {<<>>, << <<"a">> >>, << <<NL, Q>> >>}
WireTracks ==
    {WireTrack(t, a, d, v) : t \in Strs, a \in WireAliases, d \in {0, 10}, v \in BOOLEAN}
ListTracks == {WireTrack(t, <<>>, 10, TRUE) : t \in {<<"a">>, <<NL, BS>>}}
WireLists == SeqsUpTo(ListTracks, MaxQueueLen)

WireCommands ==
    {[tag |-> t] : t \in UnitCommands}
    \cup {[tag |-> t, track |-> k] : t \in {"Play", "QueueAdd"}, k \in WireTracks}
    \cup {[tag |-> "PlayQueue", tracks |-> ts, start_index |-> i] :
              ts \in WireLists, i \in WireNats}
    \cup {[tag |-> "Seek", position |-> n] : n \in WireNats}
    \cup {[tag |-> "SetVolume", volume |-> n] : n \in WireNats}
    \cup {[tag |-> "SetShuffle", enabled |-> e] : e \in BOOLEAN}
    \cup {[tag |-> "SetRepeat", mode |-> m] : m \in RepeatModes}

WireStates ==
    {[current_track |-> c, queue |-> q, queue_index |-> i, is_playing |-> p,
      volume |-> v, position |-> i, shuffle |-> ~p, repeat |-> m] :
        c \in {<<>>} \cup {<<t>> : t \in ListTracks}, q \in WireLists,
        i \in {0, 10}, p \in BOOLEAN, v \in {DefaultVolume, U8Max}, m \in RepeatModes}

\* What handle_command may answer: Status to GetStatus alone, Ok or an
\* Error with some message to the rest.
WireResponses(command) ==
    IF command.tag = "GetStatus"
    THEN {[tag |-> "Status", state |-> s] : s \in WireStates}
    ELSE {[tag |-> "Ok"]} \cup {[tag |-> "Error", message |-> m] : m \in Strs}

\* DaemonClient::send_command, first half: the request goes out.
ClientSend(command) ==
    /\ wire.stage = "idle"
    /\ wire' = [stage |-> "request", sent |-> command,
                bytes |-> WriteLine(EncCommand(command)), read |-> NoRead]

\* handle_connection, first half: the request line is read and parsed.
DaemonRead ==
    /\ wire.stage = "request"
    /\ wire' = [wire EXCEPT !.stage = "command",
                            !.read = FromStr(ReadLine(wire.bytes), "DaemonCommand")]

\* handle_connection, second half: the response goes out.
DaemonWrite ==
    /\ wire.stage = "command"
    /\ wire.read.ok
    /\ \E resp \in WireResponses(wire.read.val) :
          wire' = [stage |-> "response", sent |-> resp,
                   bytes |-> WriteLine(EncResponse(resp)), read |-> NoRead]

\* DaemonClient::send_command, second half: the response line is read and parsed.
ClientRead ==
    /\ wire.stage = "response"
    /\ wire' = [wire EXCEPT !.stage = "done",
                            !.read = FromStr(ReadLine(wire.bytes), "DaemonResponse")]

Codec(exchange) ==
    /\ exchange
    /\ UNCHANGED <<state, running, audio_q, sink, player, worker, monitor, reply,
                   main, response, probe, lock, local, files, db, cli>>

NextCodec ==
    \/ \E c \in WireCommands : Codec(ClientSend(c))
    \/ Codec(DaemonRead)
    \/ Codec(DaemonWrite)
    \/ Codec(ClientRead)

InitCodec == Startup(DefaultVolume, TRUE)

SpecCodec == InitCodec /\ [][NextCodec]_vars

----------------------------------------------------------------------------
(* The daemon serving Play, Seek and Stop while the worker, the monitor    *)
(* and the output thread run: the threads that write state.position.       *)

DispatchPosition ==
    \/ \E t \in QueueTracks : HandlePlay(t) /\ UNCHANGED <<probe, lock, local, files, db, cli>>
    \/ \E p \in SeekInputs : HandleSeek(p) /\ UNCHANGED <<probe, lock, local, files, db, cli>>
    \/ HandleStop /\ UNCHANGED <<probe, lock, local, files, db, cli>>

NextPosition == DispatchPosition \/ Worker \/ Monitor \/ SinkAdvance \/ SinkEnd

InitPosition == \E ok \in BOOLEAN : Startup(DefaultVolume, ok)

SpecPosition == InitPosition /\ [][NextPosition]_vars

----------------------------------------------------------------------------
(* The worker behind a channel that already holds the commands of the      *)
(* requests served while it was starting, and the dispatcher sending more. *)
(* The probe keeps every command sent so far, in the order of sending.     *)

BacklogCommands ==
    {Cmd("Play", t) : t \in QueueTracks}
        \cup {Cmd("Pause", 0), Cmd("Resume", 0), Cmd("Stop", 0)}

Sends(cmd) ==
    /\ Len(probe.pre_q) <= MaxBacklog
    /\ probe' = [probe EXCEPT !.pre_q = Append(@, cmd)]
    /\ UNCHANGED <<lock, local, files, db, cli>>

DispatchOrder ==
    \/ \E t \in QueueTracks : HandlePlay(t) /\ Sends(Cmd("Play", t))
    \/ HandlePause /\ Sends(Cmd("Pause", 0))
    \/ HandleResume /\ Sends(Cmd("Resume", 0))
    \/ HandleStop /\ Sends(Cmd("Stop", 0))

NextOrder == DispatchOrder \/ Worker

InitOrder ==
    /\ state = [PlaybackStateNew EXCEPT !.volume = DefaultVolume]
    /\ running = TRUE
    /\ audio_q \in SeqsUpTo(BacklogCommands, MaxBacklog)
    /\ sink = SinkNew(DefaultVolume)
    /\ player \in BOOLEAN
    /\ worker = "loop"
    /\ monitor = "loop"
    /\ reply = NoReplies
    /\ main = "accept"
    /\ response = NoResponse
    /\ wire = NoWire
    /\ probe = [NoProbe EXCEPT !.pre = state, !.pre_q = audio_q]
    /\ lock = "none"
    /\ local = NoLocal
    /\ files = Listening
    /\ db = NoDb
    /\ cli = NoCli

SpecOrder == InitOrder /\ [][NextOrder]_vars

(* The worker behind its channel, scheduled fairly: recv_timeout(100ms)    *)
(* returns a waiting command at once, so a worker that can take a step     *)
(* eventually takes it.  The flag stays true: no Shutdown is served.       *)

SpecOrderFair == InitOrder /\ [][NextOrder]_vars /\ WF_vars(Worker)

----------------------------------------------------------------------------
(* Daemon::run from its first line to its last: the socket file and the    *)
(* PID file.  main goes from "start" through "pid" and "listen" to the     *)
(* accept loop, and from "done" (the loop was left) to "stopped"; a        *)
(* startup step whose `?` returns the error ends in "failed".  The threads *)
(* are spawned once the listener exists.  Removing a file this process     *)
(* created is taken to succeed.                                            *)

NoFiles == [socket |-> "none", pid |-> FALSE]

\* if socket_path.exists() { fs::remove_file(&socket_path)?; }
RemoveStaleSocket ==
    /\ main = "start"
    /\ \/ /\ files' = [files EXCEPT !.socket = "none"]
          /\ main' = "pid"
       \/ /\ files.socket = "stale"
          /\ files' = files
          /\ main' = "failed"
    /\ UNCHANGED <<state, running, audio_q, sink, player, worker, monitor, reply,
                   response, wire, probe, lock, local, db, cli>>

\* fs::write(&pid_path, std::process::id().to_string())?
WritePidFile ==
    /\ main = "pid"
    /\ \/ /\ files' = [files EXCEPT !.pid = TRUE]
          /\ main' = "listen"
       \/ /\ files' = files
          /\ main' = "failed"
    /\ UNCHANGED <<state, running, audio_q, sink, player, worker, monitor, reply,
                   response, wire, probe, lock, local, db, cli>>

\* ListenerOptions::new().name(name).create_sync()?, the shared state, the
\* channel and the threads
CreateListener ==
    /\ main = "listen"
    /\ \/ /\ files' = [files EXCEPT !.socket = "bound"]
          /\ main' = "accept"
          /\ worker' = "loop"
          /\ monitor' = "loop"
       \/ /\ files' = files
          /\ main' = "failed"
          /\ UNCHANGED <<worker, monitor>>
    /\ UNCHANGED <<state, running, audio_q, sink, player, reply, response, wire,
                   probe, lock, local, db, cli>>

\* A faulty variant: a cleanup that leaves the PID file behind.
Cleanup_KeepsPid ==
    /\ main = "done"
    /\ files' = [files EXCEPT !.socket = "none"]
    /\ main' = "stopped"
    /\ UNCHANGED <<state, running, audio_q, sink, player, worker, monitor, reply,
                   response, wire, probe, lock, local, db, cli>>

\* let _ = fs::remove_file(&socket_path); let _ = fs::remove_file(&pid_path);
Cleanup ==
    /\ main = "done"
    /\ files' = NoFiles
    /\ main' = "stopped"
    /\ UNCHANGED <<state, running, audio_q, sink, player, worker, monitor, reply,
                   response, wire, probe, lock, local, db, cli>>

DispatchFiles ==
    \/ \E t \in QueueTracks : HandlePlay(t) /\ UNCHANGED <<probe, lock, local, files, db, cli>>
    \/ HandlePause /\ UNCHANGED <<probe, lock, local, files, db, cli>>
    \/ HandleGetStatus /\ UNCHANGED <<probe, lock, local, files, db, cli>>
    \/ HandleShutdown /\ UNCHANGED <<probe, lock, local, files, db, cli>>

NextFiles ==
    \/ RemoveStaleSocket
    \/ WritePidFile
    \/ CreateListener
    \/ DispatchFiles
    \/ Worker
    \/ Monitor
    \/ SinkEnd
    \/ Cleanup

\* What Daemon::run can find: a socket file left by a daemon that was killed,
\* or none; its PID file, or none.
InitFiles ==
    /\ state = [PlaybackStateNew EXCEPT !.volume = DefaultVolume]
    /\ running = TRUE
    /\ audio_q = <<>>
    /\ sink = SinkNew(DefaultVolume)
    /\ player \in BOOLEAN
    /\ worker = "unspawned"
    /\ monitor = "unspawned"
    /\ reply = NoReplies
    /\ main = "start"
    /\ response = NoResponse
    /\ wire = NoWire
    /\ probe = NoProbe
    /\ lock = "none"
    /\ local = NoLocal
    /\ files \in [socket : {"none", "stale"}, pid : BOOLEAN]
    /\ db = NoDb
    /\ cli = NoCli

SpecFiles == InitFiles /\ [][NextFiles]_vars

----------------------------------------------------------------------------
(* handle_connection with whatever a client writes: a request line that    *)
(* parses is handled and answered, one that does not makes                 *)
(* handle_connection return Err before handle_command is reached, and the  *)
(* connection is dropped with it.                                          *)

\* Lines that are no DaemonCommand: nothing at all, an empty line, a JSON text
\* cut short, an unknown variant, a variant without its field, a known variant
\* followed by more text.
MalformedLines ==
    { <<>>,
      <<NL>>,
      <<"{", NL>>,
      WriteLine(EncName("Halt")),
      WriteLine(EncName("Seek")),
      EncName("Pause") \o <<"a", NL>> }

\* Lines that are one: unit variants, a struct variant, a line cut at the end
\* of the JSON text (read_line returns at end of file).
WellFormedLines ==
    {WriteLine(EncCommand([tag |-> t])) : t \in {"Pause", "GetStatus", "Shutdown"}}
        \cup {WriteLine(EncCommand([tag |-> "Seek", position |-> n])) : n \in SeekInputs}
        \cup {EncCommand([tag |-> "Stop"])}

\* A client connects and writes a line.
ClientWrites(line) ==
    /\ \/ wire.stage \in {"idle", "dropped"}
       \/ wire.stage = "command" /\ probe # NoProbe
    /\ wire' = [stage |-> "request", sent |-> <<>>, bytes |-> line, read |-> NoRead]
    /\ probe' = NoProbe
    /\ UNCHANGED <<state, running, audio_q, sink, player, worker, monitor, reply,
                   main, response, lock, local, files, db, cli>>

\* reader.read_line(&mut line)?; serde_json::from_str(&line)
ConnectionRead ==
    /\ main = "accept"
    /\ Codec(DaemonRead)

\* A faulty variant: a line that does not parse brings the accept loop down.
ConnectionDropped_Crashes ==
    /\ main = "accept"
    /\ wire.stage = "command"
    /\ ~wire.read.ok
    /\ wire' = [wire EXCEPT !.stage = "dropped"]
    /\ running' = FALSE
    /\ main' = "done"
    /\ UNCHANGED <<state, audio_q, sink, player, worker, monitor, reply,
                   response, probe, lock, local, files, db, cli>>

\* from_str(..)? returns Err: handle_connection ends, the stream is dropped
\* and Daemon::run logs "Connection error".
ConnectionDropped ==
    /\ main = "accept"
    /\ wire.stage = "command"
    /\ ~wire.read.ok
    /\ wire' = [wire EXCEPT !.stage = "dropped"]
    /\ UNCHANGED <<state, running, audio_q, sink, player, worker, monitor, reply,
                   main, response, probe, lock, local, files, db, cli>>

\* handle_command(command, ..) on the command read, and the response.
ConnectionServed ==
    /\ wire.stage = "command"
    /\ wire.read.ok
    /\ Unserved
    /\ LET command == wire.read.val
       IN  CASE command.tag = "Pause" -> HandlePause
             [] command.tag = "Stop" -> HandleStop
             [] command.tag = "GetStatus" -> HandleGetStatus
             [] command.tag = "Shutdown" -> HandleShutdown
             [] command.tag = "Seek" -> HandleSeek(command.position)
    /\ Served(wire.read.val.tag, 0)

NextProtocol ==
    \/ \E line \in MalformedLines \cup WellFormedLines : ClientWrites(line)
    \/ ConnectionRead
    \/ ConnectionDropped
    \/ ConnectionServed
    \/ Worker

InitProtocol == \E ok \in BOOLEAN : Startup(DefaultVolume, ok)

SpecProtocol == InitProtocol /\ [][NextProtocol]_vars

----------------------------------------------------------------------------
(* The catalog store (src/src/db/mod.rs): the tables tracks and            *)
(* playlist_tracks of one SQLite connection, the latter for one playlist.  *)
(* A row of tracks is [id, url, title, alias] with alias 0 for NULL; a row *)
(* of playlist_tracks is [track_id, position].  Whether SQLite enforces    *)
(* the foreign keys is decided by the build of the library: foreign_keys   *)
(* is either.  cli.pc names the call made last, cli.result what it         *)
(* returned; probe.arg is its argument, probe.pre the tables before it and *)
(* probe.pre_q the tracks of the playlist, oldest addition first.          *)

Urls == Tracks
Titles == Tracks
NoAlias == 0
Aliases == {NoAlias, 1}

NoRow == [id |-> NoTrack, url |-> 0, title |-> 0, alias |-> NoAlias]

\* The tracks a caller can hand to insert_track.
NewTracks == [id : Tracks, url : Urls, title : Titles, alias : Aliases]

\* stmt.query_row([id.to_string()], Self::row_to_track).ok()
GetTrack(d, id) ==
    IF \E r \in d.tracks : r.id = id
    THEN CHOOSE r \in d.tracks : r.id = id
    ELSE NoRow

\* INSERT INTO tracks: id is the PRIMARY KEY, url is UNIQUE.
InsertAccepted(d, track) ==
    \A r \in d.tracks : r.id # track.id /\ r.url # track.url

InsertedTrack(d, track) ==
    [d EXCEPT !.tracks = @ \cup {track}]

\* A faulty variant: the UPDATE without its WHERE clause.
UpdatedTrackAlias_EveryRow(d, id, alias) ==
    [d EXCEPT !.tracks = {[r EXCEPT !.alias = alias] : r \in @}]

\* UPDATE tracks SET alias = ?1 WHERE id = ?2
UpdatedTrackAlias(d, id, alias) ==
    [d EXCEPT !.tracks = {IF r.id = id THEN [r EXCEPT !.alias = alias] ELSE r : r \in @}]

\* DELETE FROM tracks WHERE id = ?1, with ON DELETE CASCADE when enforced
DeletedTrack(d, id) ==
    [d EXCEPT !.tracks = {r \in @ : r.id # id},
              !.playlist_tracks =
                  IF d.foreign_keys THEN {pt \in @ : pt.track_id # id} ELSE @]

\* SELECT COALESCE(MAX(position), -1) + 1 FROM playlist_tracks
NextPosition_Of(d) ==
    IF d.playlist_tracks = {} THEN 0
    ELSE 1 + CHOOSE m \in {pt.position : pt \in d.playlist_tracks} :
                 \A pt \in d.playlist_tracks : pt.position <= m

\* A faulty variant: INSERT OR REPLACE, which moves a track added again to
\* the end.
AddedToPlaylist_Replaces(d, track_id, position) ==
    [d EXCEPT !.playlist_tracks =
        {pt \in @ : pt.track_id # track_id}
            \cup {[track_id |-> track_id, position |-> position]}]

\* INSERT OR IGNORE: a row with the same (playlist_id, track_id) is kept.
AddedToPlaylist(d, track_id, position) ==
    IF \E pt \in d.playlist_tracks : pt.track_id = track_id
    THEN d
    ELSE [d EXCEPT !.playlist_tracks =
              @ \cup {[track_id |-> track_id, position |-> position]}]

\* DELETE FROM playlist_tracks WHERE playlist_id = ?1 AND track_id = ?2
RemovedFromPlaylist(d, track_id) ==
    [d EXCEPT !.playlist_tracks = {pt \in @ : pt.track_id # track_id}]

\* The rows in ascending position; rows of equal position in either order.
RECURSIVE OrderByPosition(_)
OrderByPosition(rows) ==
    IF rows = {} THEN <<>>
    ELSE LET first == CHOOSE r \in rows : \A o \in rows : r.position <= o.position
         IN  <<first>> \o OrderByPosition(rows \ {first})

\* tracks t INNER JOIN playlist_tracks pt ON t.id = pt.track_id ORDER BY pt.position
GetPlaylistTracks(d) ==
    LET joined == {pt \in d.playlist_tracks : \E r \in d.tracks : r.id = pt.track_id}
        ordered == OrderByPosition(joined)
    IN  [i \in 1..Len(ordered) |-> GetTrack(d, ordered[i].track_id)]

Without(seq, id) == SelectSeq(seq, LAMBDA x : x # id)

Called(name, arg, result, members) ==
    /\ cli' = [cli EXCEPT !.pc = name, !.result = result]
    /\ probe' = [op |-> name, arg |-> arg, pre |-> db, pre_q |-> members]
    /\ UNCHANGED <<state, running, audio_q, sink, player, worker, monitor, reply,
                   main, response, wire, lock, local, files>>

insert_track(track) ==
    /\ \/ /\ InsertAccepted(db, track)
          /\ db' = InsertedTrack(db, track)
          /\ Called("insert_track", track, "Ok", probe.pre_q)
       \/ /\ ~InsertAccepted(db, track)
          /\ db' = db
          /\ Called("insert_track", track, "Err", probe.pre_q)

update_track_alias(id, alias) ==
    /\ db' = UpdatedTrackAlias(db, id, alias)
    /\ Called("update_track_alias", <<id, alias>>, "Ok", probe.pre_q)

delete_track(id) ==
    /\ db' = DeletedTrack(db, id)
    /\ Called("delete_track", id, "Ok",
              IF db.foreign_keys THEN Without(probe.pre_q, id) ELSE probe.pre_q)

add_track_to_playlist(track_id) ==
    /\ NextPosition_Of(db) <= MaxAdds
    /\ \/ /\ db.foreign_keys => \E r \in db.tracks : r.id = track_id
          /\ db' = AddedToPlaylist(db, track_id, NextPosition_Of(db))
          /\ Called("add_track_to_playlist", track_id, "Ok",
                    IF \E i \in 1..Len(probe.pre_q) : probe.pre_q[i] = track_id
                    THEN probe.pre_q ELSE Append(probe.pre_q, track_id))
       \/ /\ db.foreign_keys
          /\ ~\E r \in db.tracks : r.id = track_id
          /\ ~\E pt \in db.playlist_tracks : pt.track_id = track_id
          /\ db' = db
          /\ Called("add_track_to_playlist", track_id, "Err", probe.pre_q)

remove_track_from_playlist(track_id) ==
    /\ db' = RemovedFromPlaylist(db, track_id)
    /\ Called("remove_track_from_playlist", track_id, "Ok", Without(probe.pre_q, track_id))

\* The calls on the table of tracks.
NextCatalog ==
    \/ \E t \in NewTracks : insert_track(t)
    \/ \E id \in Tracks, a \in Aliases : update_track_alias(id, a)
    \/ \E id \in Tracks : delete_track(id)

\* Track::new(url, title, ..): no alias; here the track of id t has url t.
TrackNew(t) == [id |-> t, url |-> t, title |-> t, alias |-> NoAlias]

\* The calls on the playlist, and tracks coming and going under it.
NextPlaylist ==
    \/ \E id \in Tracks : insert_track(TrackNew(id))
    \/ \E id \in Tracks : delete_track(id)
    \/ \E id \in Tracks : add_track_to_playlist(id)
    \/ \E id \in Tracks : remove_track_from_playlist(id)

\* Database::open_in_memory: the schema and no rows.
InitCatalog ==
    /\ state = [PlaybackStateNew EXCEPT !.volume = DefaultVolume]
    /\ running = TRUE
    /\ audio_q = <<>>
    /\ sink = SinkNew(DefaultVolume)
    /\ player = TRUE
    /\ worker = "unspawned"
    /\ monitor = "unspawned"
    /\ reply = NoReplies
    /\ main = "start"
    /\ response = NoResponse
    /\ wire = NoWire
    /\ probe = NoProbe
    /\ lock = "none"
    /\ local = NoLocal
    /\ files = NoFiles
    /\ db \in {[NoDb EXCEPT !.foreign_keys = fk] : fk \in BOOLEAN}
    /\ cli = NoCli

SpecCatalog == InitCatalog /\ [][NextCatalog]_vars

SpecPlaylist == InitCatalog /\ [][NextPlaylist]_vars

----------------------------------------------------------------------------
(* Daemon::start_detached and Daemon::stop, run by a mixyt process beside  *)
(* the daemon.  cli.pc is the position of the call ("returned" once it has *)
(* returned cli.result), cli.polls the iterations of its polling loop that *)
(* have slept, cli.found whether is_daemon_running answered true,          *)
(* cli.spawned whether it spawned a daemon and cli.sent whether it sent    *)
(* Shutdown.  main = "absent" when there is no daemon process.             *)

\* socket_path.exists()
SocketExists == files.socket # "none"

\* self.socket_path.exists() && self.send_command(GetStatus).is_ok(): the
\* connection is made and answered only by a daemon in its accept loop.
DaemonAnswers == SocketExists /\ files.socket = "bound" /\ main = "accept"

CliFrame == UNCHANGED <<probe, lock, local, db>>

DaemonFrame ==
    UNCHANGED <<state, running, audio_q, sink, player, worker, monitor, reply,
                main, response, wire>>

\* A faulty variant: start_detached that spawns without asking whether a
\* daemon answers and without removing the socket file.
StartCheck_Unchecked ==
    /\ cli.pc = "start"
    /\ cli' = [cli EXCEPT !.pc = "spawn"]
    /\ UNCHANGED files
    /\ DaemonFrame
    /\ CliFrame

\* if socket_path.exists() { if client.is_daemon_running() { bail!(..) }
\*                           fs::remove_file(&socket_path)?; }
StartCheck ==
    /\ cli.pc = "start"
    /\ \/ /\ DaemonAnswers
          /\ HandleGetStatus
          /\ cli' = [cli EXCEPT !.pc = "returned", !.result = "Err", !.found = TRUE]
          /\ UNCHANGED files
       \/ /\ SocketExists /\ ~DaemonAnswers
          /\ \/ /\ files' = [files EXCEPT !.socket = "none"]
                /\ cli' = [cli EXCEPT !.pc = "spawn"]
             \/ /\ files' = files
                /\ cli' = [cli EXCEPT !.pc = "returned", !.result = "Err"]
          /\ DaemonFrame
       \/ /\ ~SocketExists
          /\ cli' = [cli EXCEPT !.pc = "spawn"]
          /\ UNCHANGED files
          /\ DaemonFrame
    /\ CliFrame

\* Command::new(&exe).arg("daemon").arg("run")...spawn()?
StartSpawn ==
    /\ cli.pc = "spawn"
    /\ \/ /\ main' = "start"
          /\ cli' = [cli EXCEPT !.pc = "poll", !.spawned = TRUE]
       \/ /\ main' = main
          /\ cli' = [cli EXCEPT !.pc = "returned", !.result = "Err"]
    /\ UNCHANGED <<state, running, audio_q, sink, player, worker, monitor, reply,
                   response, wire, probe, lock, local, files, db>>

\* for _ in 0..50 { if socket_path.exists() { return Ok(()) } sleep } bail!(..)
StartPoll ==
    /\ cli.pc = "poll"
    /\ cli' = IF cli.polls = MaxPolls
                THEN [cli EXCEPT !.pc = "returned", !.result = "Err"]
              ELSE IF SocketExists
                THEN [cli EXCEPT !.pc = "returned", !.result = "Ok"]
              ELSE [cli EXCEPT !.polls = @ + 1]
    /\ DaemonFrame
    /\ UNCHANGED <<probe, lock, local, files, db>>

\* if client.is_daemon_running() { .. } Ok(())
StopCheck ==
    /\ cli.pc = "stop"
    /\ \/ /\ DaemonAnswers
          /\ HandleGetStatus
          /\ cli' = [cli EXCEPT !.pc = "shutdown", !.found = TRUE]
       \/ /\ ~DaemonAnswers
          /\ cli' = [cli EXCEPT !.pc = "returned", !.result = "Ok"]
          /\ DaemonFrame
    /\ UNCHANGED <<probe, lock, local, files, db>>

\* client.shutdown()?
StopShutdown ==
    /\ cli.pc = "shutdown"
    /\ HandleShutdown
    /\ cli' = [cli EXCEPT !.pc = "poll_stop", !.sent = TRUE]
    /\ UNCHANGED <<probe, lock, local, files, db>>

\* for _ in 0..50 { if !config.socket_path().exists() { return Ok(()) } sleep }
StopPoll ==
    /\ cli.pc = "poll_stop"
    /\ cli' = IF cli.polls = MaxPolls \/ ~SocketExists
                THEN [cli EXCEPT !.pc = "returned", !.result = "Ok"]
              ELSE [cli EXCEPT !.polls = @ + 1]
    /\ DaemonFrame
    /\ UNCHANGED <<probe, lock, local, files, db>>

DaemonRun ==
    \/ RemoveStaleSocket
    \/ WritePidFile
    \/ CreateListener
    \/ Worker
    \/ Cleanup

NextDetached ==
    \/ StartCheck
    \/ StartSpawn
    \/ StartPoll
    \/ StopCheck
    \/ StopShutdown
    \/ StopPoll
    \/ DaemonRun

\* Either call, made when a daemon is in its accept loop, or when there is
\* no daemon and the socket file is absent or was left behind.
InitDetached ==
    /\ state = [PlaybackStateNew EXCEPT !.volume = DefaultVolume]
    /\ running = TRUE
    /\ audio_q = <<>>
    /\ sink = SinkNew(DefaultVolume)
    /\ player \in BOOLEAN
    /\ \/ main = "accept" /\ worker = "loop" /\ monitor = "loop" /\ files = Listening
       \/ /\ main = "absent" /\ worker = "unspawned" /\ monitor = "unspawned"
          /\ files \in [socket : {"none", "stale"}, pid : BOOLEAN]
    /\ reply = NoReplies
    /\ response = NoResponse
    /\ wire = NoWire
    /\ probe = NoProbe
    /\ lock = "none"
    /\ local = NoLocal
    /\ db = NoDb
    /\ cli \in {[NoCli EXCEPT !.pc = call] : call \in {"start", "stop"}}

SpecDetached == InitDetached /\ [][NextDetached]_vars

----------------------------------------------------------------------------
(* The daemon serving Play, PlayQueue, Next and Pause with the worker      *)
(* alone beside it: no source ends by itself and the monitor is not        *)
(* scheduled, so every change of the state or of the sink is the effect of *)
(* a request.                                                              *)

DispatchAgreement ==
    \/ \E t \in Tracks : HandlePlay(t) /\ UNCHANGED <<probe, lock, local, files, db, cli>>
    \/ \E ts \in SeqsUpTo(Tracks, MaxQueueLen) :
         HandlePlayQueue(ts, 0) /\ UNCHANGED <<probe, lock, local, files, db, cli>>
    \/ HandleNext /\ UNCHANGED <<probe, lock, local, files, db, cli>>
    \/ HandlePause /\ UNCHANGED <<probe, lock, local, files, db, cli>>

NextAgreement == DispatchAgreement \/ Worker

InitAgreement == \E ok \in BOOLEAN : Startup(DefaultVolume, ok)

SpecAgreement == InitAgreement /\ [][NextAgreement]_vars

----------------------------------------------------------------------------
(* Shutdown against the worker, step by step: the dispatcher's flag write  *)
(* and its send of Stop are two steps, and the worker's flag check, its    *)
(* recv_timeout and its execution of the received command are three.       *)
(* worker is "loop" before the check, "recv" in recv_timeout and "exec"    *)
(* with the received command in local.cmd; main is "stop_send" between the *)
(* flag write and the send.                                                *)

\* running.store(false, Ordering::SeqCst)
ShutdownStore ==
    /\ main = "accept"
    /\ running' = FALSE
    /\ main' = "stop_send"
    /\ UNCHANGED <<state, audio_q, sink, player, worker, monitor, reply, response,
                   wire, probe, lock, local, files, db, cli>>

\* let _ = audio_tx.send(AudioCommand::Stop); DaemonResponse::Ok
ShutdownSend ==
    /\ main = "stop_send"
    /\ Len(audio_q) < MaxChan
    /\ audio_q' = audio_q \o Sent(Cmd("Stop", 0))
    /\ response' = RespOk
    /\ main' = "done"
    /\ UNCHANGED <<state, running, sink, player, worker, monitor, reply, wire,
                   probe, lock, local, files, db, cli>>

\* while running.load(Ordering::SeqCst)
WorkerCheck ==
    /\ worker = "loop"
    /\ worker' = IF running THEN "recv" ELSE "done"
    /\ UNCHANGED <<state, running, audio_q, sink, player, monitor, reply, main,
                   response, wire, probe, lock, local, files, db, cli>>

\* rx.recv_timeout(100ms): Ok(cmd), or Err(Timeout) => continue
WorkerRecv ==
    /\ worker = "recv"
    /\ IF audio_q # <<>>
       THEN /\ local' = [local EXCEPT !.cmd = Head(audio_q)]
            /\ audio_q' = Tail(audio_q)
            /\ worker' = "exec"
       ELSE /\ worker' = "loop"
            /\ UNCHANGED <<local, audio_q>>
    /\ UNCHANGED <<state, running, sink, player, monitor, reply, main, response,
                   wire, probe, lock, files, db, cli>>

\* if let Some(ref p) = player { match cmd { .. } }
WorkerRun ==
    /\ worker = "exec"
    /\ IF player
       THEN \E ok \in BOOLEAN :
              /\ (ok = FALSE) => local.cmd.op \in {"Play", "Seek"}
              /\ Execute(local.cmd, ok)
       ELSE UNCHANGED <<state, sink, reply>>
    /\ local' = [local EXCEPT !.cmd = Cmd("", 0)]
    /\ worker' = "loop"
    /\ UNCHANGED <<running, audio_q, player, monitor, main, response, wire, probe,
                   lock, files, db, cli>>

NextStopRace ==
    \/ \E t \in Tracks : HandlePlay(t) /\ UNCHANGED <<probe, lock, local, files, db, cli>>
    \/ HandlePause /\ UNCHANGED <<probe, lock, local, files, db, cli>>
    \/ ShutdownStore
    \/ ShutdownSend
    \/ WorkerCheck
    \/ WorkerRecv
    \/ WorkerRun

InitStopRace == \E ok \in BOOLEAN : Startup(DefaultVolume, ok)

SpecStopRace == InitStopRace /\ [][NextStopRace]_vars

----------------------------------------------------------------------------
(* Claims. *)

QueueIndexInRange(s) ==
    s.queue # <<>> => (0 <= s.queue_index /\ s.queue_index < Len(s.queue))

(* C1: in every reachable state, under any interleaving of the queue       *)
(* requests with the worker and the monitor, a non-empty queue has         *)
(* 0 <= queue_index < queue.len(), and so has every state a GetStatus      *)
(* response carries.                                                       *)
C1_QueueIndexInRange ==
    /\ QueueIndexInRange(state)
    /\ response.kind = "Status" => QueueIndexInRange(response.status)

\* A GetStatus answered while a Play is still in the channel, showing a full
\* queue at its last index.
C1_Witness ==
    /\ response.kind = "Status"
    /\ response.status = state
    /\ Len(state.queue) = MaxQueueLen
    /\ state.queue_index = MaxQueueLen - 1
    /\ audio_q # <<>>
    /\ Head(audio_q).op = "Play"

(* C2: PlaybackState.volume is in [0,100] in every reachable state, for    *)
(* any configured default volume and any SetVolume level.                  *)
C2_VolumeInRange == state.volume \in 0..MaxVolume

\* A track-finished event: the monitor, having read `finished`, takes the lock.
FinishedEvent == monitor = "finished" /\ monitor' # "finished"

PlayEnqueued(idx) ==
    audio_q' = Append(audio_q, Cmd("Play", state.queue[idx + 1]))

(* C3: with shuffle off and repeat Off, each track-finished event before   *)
(* the last track moves queue_index on by one and enqueues Play of that    *)
(* track; the event on the last track stops playback and leaves            *)
(* queue_index where it is.                                                *)
C3_AdvanceThroughQueue ==
    [][(FinishedEvent /\ state.queue # <<>> /\ ~state.shuffle /\ state.repeat = "Off")
        => IF state.queue_index + 1 < Len(state.queue)
           THEN /\ state'.queue_index = state.queue_index + 1
                /\ PlayEnqueued(state.queue_index + 1)
           ELSE /\ state'.current_track = NoTrack
                /\ ~state'.is_playing
                /\ state'.queue_index = state.queue_index]_vars

(* C4: a manual Next on a non-empty queue of length N at index i sets      *)
(* queue_index to (i+1) mod N, enqueues Play of that track and leaves      *)
(* current_track and is_playing alone, whatever shuffle and repeat are.    *)
C4_NextAlwaysAdvances ==
    (probe.op = "Next" /\ probe.pre.queue # <<>>)
        => LET n == Len(probe.pre.queue)
               j == (probe.pre.queue_index + 1) % n
           IN  /\ state.queue_index = j
               /\ audio_q = Append(probe.pre_q, Cmd("Play", probe.pre.queue[j + 1]))
               /\ state.current_track = probe.pre.current_track
               /\ state.is_playing = probe.pre.is_playing

(* C5: a manual Previous on a non-empty queue of length N at index i sets  *)
(* queue_index to (i-1+N) mod N and enqueues Play(queue[queue_index]),     *)
(* whatever shuffle and repeat are.                                        *)
C5_PreviousWraps ==
    (probe.op = "Previous" /\ probe.pre.queue # <<>>)
        => LET n == Len(probe.pre.queue)
               j == (probe.pre.queue_index - 1 + n) % n
           IN  /\ state.queue_index = j
               /\ state.queue = probe.pre.queue
               /\ audio_q = Append(probe.pre_q, Cmd("Play", state.queue[state.queue_index + 1]))
               /\ response.kind = "Ok"

\* Previous at index 0 of a two-track queue, with shuffle on and repeat One.
C5_Witness ==
    /\ probe.op = "Previous"
    /\ Len(probe.pre.queue) = 2
    /\ probe.pre.queue[1] # probe.pre.queue[2]
    /\ probe.pre.queue_index = 0
    /\ probe.pre.shuffle
    /\ probe.pre.repeat = "One"
    /\ state.queue_index = 1
    /\ audio_q = <<Cmd("Play", probe.pre.queue[2])>>

(* C6: with repeat One, a track-finished event leaves queue_index as it is *)
(* and enqueues Play(queue[queue_index]); playback is not stopped.         *)
C6_RepeatOneReplays ==
    [][(FinishedEvent /\ state.queue # <<>> /\ state.repeat = "One")
        => /\ state'.queue_index = state.queue_index
           /\ PlayEnqueued(state.queue_index)
           /\ state'.current_track = state.current_track
           /\ state'.is_playing = state.is_playing]_vars

(* C7: with shuffle off and repeat not One, a track-finished event with    *)
(* next = (i+1) mod N sets queue_index to next and enqueues                *)
(* Play(queue[next]), unless next = 0 and repeat = Off.                    *)
C7_AutoAdvance ==
    [][(FinishedEvent /\ state.queue # <<>> /\ ~state.shuffle /\ state.repeat # "One")
        => LET next == (state.queue_index + 1) % Len(state.queue)
           IN  (~(next = 0 /\ state.repeat = "Off"))
                   => (state'.queue_index = next /\ PlayEnqueued(next))]_vars

\* The request is PlayQueue with no track, or Next or Previous on an empty queue.
EmptyQueueRequest ==
    \/ probe.op = "PlayQueue" /\ Len(probe.arg[1]) = 0
    \/ probe.op \in {"Next", "Previous"} /\ probe.pre.queue = <<>>

(* C8: PlayQueue with an empty list, and Next or Previous on an empty      *)
(* queue, answer Error, leave PlaybackState as it was and enqueue nothing. *)
C8_EmptyQueueErrors ==
    EmptyQueueRequest
        => /\ response.kind = "Error"
           /\ state = probe.pre
           /\ audio_q = probe.pre_q

\* PlayQueue with no track, served while a queue is loaded and playing.
C8_Witness ==
    /\ probe.op = "PlayQueue"
    /\ Len(probe.arg[1]) = 0
    /\ Len(probe.pre.queue) = MaxQueueLen
    /\ probe.pre.is_playing
    /\ response = RespError("Queue is empty")

(* C9: the AudioCommand::SetVolume the dispatcher enqueues for              *)
(* SetVolume{level} carries min(level, 100).                               *)
C9_ForwardsClamped ==
    probe.op = "SetVolume"
        => audio_q = Append(probe.pre_q, Cmd("SetVolume", Min(probe.arg, MaxVolume)))


\* C10: a DaemonCommand read by the daemon, and a DaemonResponse read by the
\* client, is decoded without error to a value equal to the one that was
\* encoded and written as a line.
C10_RoundTrip ==
    wire.stage \in {"command", "done"} => wire.read.ok /\ wire.read.val = wire.sent

\* C10's case: a Status response whose queue holds a title with a line feed and
\* a backslash has been written and read back.
C10_Witness ==
    /\ wire.stage = "done"
    /\ wire.sent.tag = "Status"
    /\ Len(wire.sent.state.queue) > 0
    /\ wire.sent.state.queue[1].title = <<NL, BS>>
    /\ wire.read.ok

\* A request has been served.
Answered == probe.op # ""

C13_PlayLeavesState ==
    probe.op = "Play"
        => /\ audio_q = Append(probe.pre_q, Cmd("Play", probe.arg))
           /\ response = RespOk
           /\ state = probe.pre

\* Play of a track answered Ok while the state still shows another track.
C13_Witness ==
    /\ probe.op = "Play"
    /\ response = RespOk
    /\ state.current_track \in Tracks \ {probe.arg}
    /\ audio_q[Len(audio_q)] = Cmd("Play", probe.arg)

(* C15: SetShuffle, SetRepeat, QueueAdd and QueueClear enqueue nothing and *)
(* change only their own fields.                                           *)
C15_PureStateRequests ==
    /\ probe.op \in {"SetShuffle", "SetRepeat", "QueueAdd", "QueueClear"}
          => audio_q = probe.pre_q /\ response = RespOk
    /\ probe.op = "SetShuffle" => state = [probe.pre EXCEPT !.shuffle = probe.arg]
    /\ probe.op = "SetRepeat" => state = [probe.pre EXCEPT !.repeat = probe.arg]
    /\ probe.op = "QueueAdd" => state = [probe.pre EXCEPT !.queue = Append(@, probe.arg)]
    /\ probe.op = "QueueClear"
          => state = [probe.pre EXCEPT !.queue = <<>>, !.queue_index = 0]

\* QueueClear served while a track plays from a queue at its last index.
C15_Witness ==
    /\ probe.op = "QueueClear"
    /\ probe.pre.is_playing
    /\ probe.pre.current_track # NoTrack
    /\ probe.pre.queue_index = MaxQueueLen - 1
    /\ state.queue = <<>>
    /\ state.current_track = probe.pre.current_track

(* C16: GetStatus answers Status with the whole PlaybackState as it was    *)
(* when the lock was taken, changes no field and enqueues nothing.         *)
C16_GetStatusCopies ==
    probe.op = "GetStatus"
        => /\ response = RespStatus(probe.pre)
           /\ state = probe.pre
           /\ audio_q = probe.pre_q

\* GetStatus served while a track of a loaded queue plays.
C16_Witness ==
    /\ probe.op = "GetStatus"
    /\ probe.pre.is_playing
    /\ probe.pre.queue # <<>>
    /\ probe.pre.shuffle
    /\ response.kind = "Status"
    /\ response.status = probe.pre

\* The worker, holding a player, takes the command `op` from the channel and
\* executes it.
Executes(op) ==
    /\ player
    /\ worker = "recv"
    /\ audio_q # <<>>
    /\ Head(audio_q).op = op
    /\ audio_q' = Tail(audio_q)

(* C14: the dispatcher never writes state.position; the worker executing   *)
(* Seek sets it to the target only when the engine's seek succeeded, and   *)
(* leaves the whole state as it was when it failed.                        *)
C14_SeekPosition ==
    [][/\ Executes("Seek")
            => LET target == Head(audio_q).arg
               IN  \/ sink'.pos = target /\ state' = [state EXCEPT !.position = target]
                   \/ sink' = sink /\ state' = state
       /\ state'.position # state.position
            => audio_q # <<>> /\ audio_q' = Tail(audio_q)]_vars

\* A Seek to the end of a playing track has succeeded and is mirrored.
C14_Witness ==
    /\ state.position = MaxPos
    /\ sink.pos = MaxPos
    /\ sink.src # NoTrack
    /\ state.is_playing

(* C19: the worker executing Play(track) sets current_track = track,       *)
(* is_playing = true and position = 0 together when play_file succeeds;    *)
(* when it fails it sets is_playing = false and leaves current_track (and  *)
(* the engine) alone; in both cases no response is written.                *)
C19_PlayEffect ==
    [][Executes("Play")
          => LET track == Head(audio_q).arg
             IN  /\ \/ /\ sink' = PlayFile(sink, track)
                       /\ state' = [state EXCEPT !.current_track = track,
                                                 !.is_playing = TRUE, !.position = 0]
                    \/ /\ sink' = sink
                       /\ state' = [state EXCEPT !.is_playing = FALSE]
                 /\ response' = response]_vars

\* A Play failed after an earlier one succeeded: the earlier track is still
\* current, and still in the engine, and is_playing is false.
C19_Witness ==
    /\ state.current_track # NoTrack
    /\ ~state.is_playing
    /\ sink.src = state.current_track
    /\ ~sink.paused

(* C20: the worker executing Pause sets is_playing = false, Resume sets    *)
(* is_playing = true, Stop sets is_playing = false, current_track = None   *)
(* and position = 0; no other field changes.                               *)
C20_PauseResumeStopEffect ==
    [][/\ Executes("Pause") => state' = [state EXCEPT !.is_playing = FALSE]
       /\ Executes("Resume") => state' = [state EXCEPT !.is_playing = TRUE]
       /\ Executes("Stop") => state' = [state EXCEPT !.is_playing = FALSE,
                                                     !.current_track = NoTrack,
                                                     !.position = 0]]_vars

\* Resume executed with nothing loaded: is_playing is true with no current track.
C20_Witness ==
    /\ state.is_playing
    /\ state.current_track = NoTrack
    /\ sink.src = NoTrack
    /\ ~sink.paused

(* C17: the step that clears the running flag is the Shutdown request: it *)
(* enqueues Stop, answers Ok, leaves the state alone and ends the accept   *)
(* loop; once the accept loop has ended no request is handled (no response *)
(* is written, the flag stays false, the loop stays ended).                *)
C17_ShutdownEndsAcceptLoop ==
    [][/\ (running /\ ~running')
            => /\ audio_q' = Append(audio_q, Cmd("Stop", 0))
               /\ response' = RespOk
               /\ state' = state
               /\ main = "accept"
               /\ main' = "done"
       /\ main = "done"
            => /\ main' = "done"
               /\ ~running'
               /\ response' = response]_vars

\* Shutdown was served while a track was playing: the flag is false, the
\* accept loop has ended, the answer was Ok and Stop waits for the worker.
C17_Witness ==
    /\ ~running
    /\ main = "done"
    /\ response = RespOk
    /\ state.is_playing
    /\ audio_q = <<Cmd("Stop", 0)>>

(* C18: once the running flag is false, the audio worker loop and the      *)
(* playback monitor loop both eventually terminate.                        *)
C18_LoopsTerminate == (~running) ~> (worker = "done" /\ monitor = "done")

\* Both loops have ended after a shutdown with a player, with no command
\* left in the channel.
C18_Witness ==
    /\ ~running
    /\ worker = "done"
    /\ monitor = "done"
    /\ player
    /\ audio_q = <<>>

OutsideUntouched ==
    /\ audio_q' = audio_q
    /\ sink' = sink
    /\ reply' = reply
    /\ response' = response
    /\ wire' = wire

(* C22: no thread is inside state.lock() during a step in which it sends   *)
(* on the AudioCommand channel, receives from it or from a reply channel,  *)
(* calls the audio engine or writes a response: a step of the dispatcher,  *)
(* the worker or the monitor that starts or ends inside the lock touches   *)
(* none of those, and the media-key callback never keeps the lock between  *)
(* two steps.                                                              *)
C22_NoLockAcrossEffects ==
    /\ [](lock \in {"none", "dispatcher", "worker", "monitor"})
    /\ [][/\ main' # main /\ (lock = "dispatcher" \/ lock' = "dispatcher")
               => OutsideUntouched
          /\ worker' # worker /\ (lock = "worker" \/ lock' = "worker")
               => OutsideUntouched
          /\ monitor' # monitor /\ (lock = "monitor" \/ lock' = "monitor")
               => OutsideUntouched]_vars

\* The dispatcher is inside the lock between the two writes of PlayQueue while
\* the worker, back from play_file, waits for the lock.
C22_Witness ==
    /\ lock = "dispatcher"
    /\ main = "pq_queue"
    /\ worker = "play_ok"

\* The states one command's writes can make of s.
Updates(s) ==
    {Played(s, t) : t \in Tracks}
        \cup {PlayFailed(s), Paused(s), Resumed(s), Stopped(s), TrackFinished(s)}
        \cup {[s EXCEPT !.queue = ts, !.queue_index = i] :
                ts \in TrackLists \ {<<>>}, i \in 0..(MaxQueueLen - 1)}
        \cup {[s EXCEPT !.position = p] : p \in 0..MaxPos}

(* C23: the state as of each release of the lock differs from the state as *)
(* of the release before by the writes of exactly one command, and a       *)
(* GetStatus answers with the state as of the last release: a state with   *)
(* part of a command's writes is never returned.                           *)
C23_NoPartialStatus ==
    [][/\ probe'.pre # probe.pre => probe'.pre \in Updates(probe.pre)
       /\ main = "accept" /\ main' = "accept" /\ response' # response
            /\ response'.kind = "Status"
            => response'.status = probe.pre]_vars

\* A GetStatus was answered and the worker is now between two writes of a
\* command: the answer is the state before those writes.
C23_Witness ==
    /\ response.kind = "Status"
    /\ response.status.queue # <<>>
    /\ lock = "worker"
    /\ state # probe.pre
    /\ response.status = probe.pre

(* C24: when AudioPlayer::new() failed, whatever requests are served,     *)
(* is_playing is never true (no track becomes current, the engine is never *)
(* touched), every request is still answered Ok, and the daemon keeps      *)
(* serving: the accept loop and the worker stay alive and a request can be *)
(* served whenever the channel has room.                                   *)
C24_NoPlayerNeverPlaying ==
    ~player
        => /\ ~state.is_playing
           /\ state.current_track = NoTrack
           /\ sink = SinkNew(DefaultVolume)
           /\ response \in {NoResponse, RespOk}
           /\ running => main = "accept" /\ worker # "done"
           /\ Len(audio_q) < MaxChan => ENABLED HandleResume

\* Without a player a request was answered Ok and its command was received
\* and dropped.
C24_Witness ==
    /\ ~player
    /\ response = RespOk
    /\ worker = "recv"
    /\ audio_q = <<>>

(* C25: a request line that does not decode to a DaemonCommand gets no    *)
(* Ok and no Status: the connection is dropped; the PlaybackState is       *)
(* unchanged, no AudioCommand is enqueued, no response is written, the     *)
(* running flag stays true and the accept loop stays in service, where it  *)
(* can read the next connection's line.  No line of MalformedLines         *)
(* decodes.                                                                *)
C25_MalformedDropped ==
    /\ [](wire.stage = "command" /\ wire.bytes \in MalformedLines => ~wire.read.ok)
    /\ [](wire.stage = "dropped" /\ wire.bytes \in MalformedLines
            => running /\ main = "accept")
    /\ [][wire.stage = "command" /\ ~wire.read.ok /\ wire' # wire
            => /\ wire'.stage = "dropped"
               /\ state' = state
               /\ audio_q' = audio_q
               /\ response' = response
               /\ running' /\ main' = "accept"]_vars
    /\ [][wire.stage = "dropped" /\ wire' # wire => wire'.stage = "request"]_vars

\* An unknown variant was dropped after an earlier request had been answered
\* Ok, and the daemon is still in service.
C25_Witness ==
    /\ wire.stage = "dropped"
    /\ wire.bytes = WriteLine(EncName("Halt"))
    /\ response = RespOk
    /\ state.position = MaxPos
    /\ running
    /\ main = "accept"

(* C26: the listener is created (the socket file bound) only once a      *)
(* stale socket file is gone and the PID file is written; while the accept *)
(* loop serves, both files exist; after a clean shutdown (the accept loop  *)
(* left on a Shutdown request, then the cleanup) neither file exists.      *)
C26_SocketAndPidFiles ==
    /\ [](main = "accept" => files = Listening)
    /\ [](main = "stopped" => ~running /\ files = NoFiles)
    /\ [][files'.socket = "bound" /\ files.socket # "bound"
            => files.socket = "none" /\ files.pid /\ files'.pid]_vars
    /\ [][files.socket = "stale" /\ files'.socket # "stale"
            => files'.socket = "none" /\ main = "start"]_vars

\* The daemon has served a Shutdown, its worker has ended and the cleanup ran.
C26_Witness ==
    /\ main = "stopped"
    /\ files = NoFiles
    /\ ~running
    /\ response = RespOk
    /\ audio_q = <<>>
    /\ worker = "done"

(* C27: between two successive states in which is_playing is true and    *)
(* current_track is the same track, state.position gets smaller only in a  *)
(* step of the worker: a Seek that succeeded (to the seek target) or a     *)
(* Play (to 0).                                                            *)
C27_PositionMonotonic ==
    [][/\ state.is_playing /\ state'.is_playing
       /\ state.current_track # NoTrack
       /\ state'.current_track = state.current_track
       /\ state'.position < state.position
       => \/ Executes("Seek") /\ state'.position = Head(audio_q).arg
                              /\ sink'.pos = Head(audio_q).arg
          \/ Executes("Play") /\ state'.position = 0]_vars

(* C28: a request answered with an Error response leaves the             *)
(* PlaybackState exactly as it was before the request, whatever the error: *)
(* the empty queue, or the channel that rejected the send.                 *)
C28_ErrorLeavesState ==
    Answered /\ response.kind = "Error" => state = probe.pre

(* C29: PlayQueue{tracks, start_index} with N > 0 tracks sets queue =     *)
(* tracks and queue_index = min(start_index, N - 1), changes no other      *)
(* field, enqueues Play(tracks[queue_index]) and answers Ok, whether       *)
(* start_index is in range or not.                                         *)
C29_PlayQueueStores ==
    probe.op = "PlayQueue" /\ probe.arg[1] # <<>>
        => LET tracks == probe.arg[1]
               start_index == probe.arg[2]
               N == Len(tracks)
               idx == IF start_index < N THEN start_index ELSE N - 1
           IN  /\ state = [probe.pre EXCEPT !.queue = tracks, !.queue_index = idx]
               /\ audio_q = Append(probe.pre_q, Cmd("Play", tracks[idx + 1]))
               /\ response = RespOk

\* A PlayQueue of two different tracks with start_index past the end: the
\* last track is the one sent to the worker, and the answer is Ok.
C29_Witness ==
    /\ probe.op = "PlayQueue"
    /\ Len(probe.arg[1]) = MaxQueueLen
    /\ probe.arg[1][1] # probe.arg[1][MaxQueueLen]
    /\ probe.arg[2] = MaxQueueLen
    /\ state.queue_index = MaxQueueLen - 1
    /\ audio_q[Len(audio_q)] = Cmd("Play", probe.arg[1][MaxQueueLen])
    /\ response = RespOk

\* The states the worker can leave after executing cmd in a state of S.
Effects(cmd, S) ==
    CASE cmd.op = "Play" -> {Played(s, cmd.arg) : s \in S} \cup {PlayFailed(s) : s \in S}
      [] cmd.op = "Pause" -> {Paused(s) : s \in S}
      [] cmd.op = "Resume" -> {Resumed(s) : s \in S}
      [] cmd.op = "Stop" -> {Stopped(s) : s \in S}

\* The states it can leave after executing cmds, first to last.
RECURSIVE Outcomes(_, _)
Outcomes(cmds, S) ==
    IF cmds = <<>> THEN S ELSE Outcomes(Tail(cmds), Effects(Head(cmds), S))

(* C30: the commands waiting in the channel are always the last of the     *)
(* commands sent, in the order of sending, and the state is what executing *)
(* the ones before them, first to last, leaves; so after Play(t) then      *)
(* Pause, both executed and the play having succeeded, current_track = t   *)
(* and is_playing = false.                                                 *)
C30_ExecutedInOrder ==
    player
        => LET sent == probe.pre_q
               done == Len(sent) - Len(audio_q)
           IN  /\ done >= 0
               /\ audio_q = SubSeq(sent, done + 1, Len(sent))
               /\ state \in Outcomes(SubSeq(sent, 1, done), {probe.pre})
               /\ \A t \in QueueTracks :
                    sent = <<Cmd("Play", t), Cmd("Pause", 0)>> /\ done = 2 /\ sink.src = t
                        => state.current_track = t /\ ~state.is_playing

\* Play(t) and Pause were both in the channel before the worker received
\* anything; both are executed, the play succeeded.
C30_Witness ==
    /\ player
    /\ probe.pre_q = <<Cmd("Play", 1), Cmd("Pause", 0)>>
    /\ audio_q = <<>>
    /\ sink.src = 1
    /\ sink.paused
    /\ state.current_track = 1
    /\ ~state.is_playing

\* What get_track returns for every id but one is what it returned before
\* the call.
OtherTracksKept(id) ==
    \A o \in Tracks \ {id} : GetTrack(db, o) = GetTrack(probe.pre, o)

(* C31: after an insert_track(t) that returned Ok, get_track(t.id) has t's *)
(* title and url (one that returned Err changed nothing); after            *)
(* update_track_alias(id, a) get_track(id), when there is such a track,    *)
(* has alias a; after delete_track(id) get_track(id) is none; and each of  *)
(* the three leaves what get_track returns for every other id as it was.   *)
C31_TrackCrud ==
    /\ cli.pc = "insert_track" /\ cli.result = "Ok"
        => /\ GetTrack(db, probe.arg.id).title = probe.arg.title
           /\ GetTrack(db, probe.arg.id).url = probe.arg.url
           /\ OtherTracksKept(probe.arg.id)
    /\ cli.pc = "insert_track" /\ cli.result = "Err" => db = probe.pre
    /\ cli.pc = "update_track_alias"
        => /\ GetTrack(db, probe.arg[1]) # NoRow
                => GetTrack(db, probe.arg[1]).alias = probe.arg[2]
           /\ (GetTrack(db, probe.arg[1]) = NoRow) = (GetTrack(probe.pre, probe.arg[1]) = NoRow)
           /\ OtherTracksKept(probe.arg[1])
    /\ cli.pc = "delete_track"
        => /\ GetTrack(db, probe.arg) = NoRow
           /\ OtherTracksKept(probe.arg)

\* Two tracks are stored and the alias of one of them was just set: the other
\* still has none.
C31_Witness ==
    /\ cli.pc = "update_track_alias"
    /\ probe.arg = <<1, 1>>
    /\ GetTrack(db, 1).alias = 1
    /\ GetTrack(db, 2) # NoRow
    /\ GetTrack(db, 2).alias = NoAlias

(* C32: get_playlist_tracks returns the tracks of the playlist, each once, *)
(* oldest addition first, whatever add_track_to_playlist and               *)
(* remove_track_from_playlist calls came before; the rows of the playlist  *)
(* have distinct positions; and adding a track that is in the playlist     *)
(* changes no table.                                                       *)
C32_PlaylistOrder ==
    LET got == GetPlaylistTracks(db)
        members == SelectSeq(probe.pre_q, LAMBDA id : GetTrack(db, id) # NoRow)
    IN  /\ Len(got) = Len(members)
        /\ \A i \in 1..Len(got) : got[i].id = members[i]
        /\ \A i, j \in 1..Len(got) : got[i].id = got[j].id => i = j
        /\ \A p, q \in db.playlist_tracks : p.position = q.position => p = q
        /\ cli.pc = "add_track_to_playlist"
             /\ (\E pt \in probe.pre.playlist_tracks : pt.track_id = probe.arg)
                => db = probe.pre

\* Track 1 was added, removed and added again after track 2: it comes second.
C32_Witness ==
    /\ cli.pc = "add_track_to_playlist"
    /\ probe.arg = 1
    /\ cli.result = "Ok"
    /\ probe.pre_q = <<2, 1>>
    /\ {pt.position : pt \in db.playlist_tracks} = {1, 2}
    /\ Len(GetPlaylistTracks(db)) = 2
    /\ GetPlaylistTracks(db)[1].id = 2

(* C33: start_detached returns an error and spawns nothing when a daemon   *)
(* answered; it spawns only with the socket file absent (a stale one was   *)
(* removed first) and then polls at most MaxPolls times, returning Ok from *)
(* a poll that finds the socket file and an error only when all polls are  *)
(* used up.  stop sends Shutdown only after the daemon answered, polls at  *)
(* most MaxPolls times after that, and returns Ok when the socket file is  *)
(* gone or the polls are used up; a polling call can always take its next  *)
(* step.                                                                   *)
C33_StartAndStop ==
    /\ [](cli.polls <= MaxPolls)
    /\ [](cli.found /\ cli.pc # "shutdown" /\ ~cli.sent
            => cli.pc = "returned" /\ cli.result = "Err" /\ ~cli.spawned)
    /\ [](cli.spawned => ~cli.found /\ ~cli.sent)
    /\ [](cli.sent => cli.found /\ ~cli.spawned)
    /\ [](cli.pc \in {"poll", "poll_stop"} => cli.spawned \/ cli.sent)
    /\ [](cli.pc = "poll" => ENABLED StartPoll)
    /\ [](cli.pc = "poll_stop" => ENABLED StopPoll)
    /\ [][~cli.spawned /\ cli'.spawned
            => ~SocketExists /\ main = "absent" /\ main' = "start"]_vars
    /\ [][main = "absent" /\ main' # "absent" => cli'.spawned]_vars
    /\ [][cli.pc = "poll" /\ cli' # cli
            => \/ /\ SocketExists /\ cli.polls < MaxPolls
                  /\ cli'.pc = "returned" /\ cli'.result = "Ok"
               \/ /\ ~SocketExists /\ cli.polls < MaxPolls
                  /\ cli'.pc = "poll" /\ cli'.polls = cli.polls + 1
               \/ /\ cli.polls = MaxPolls
                  /\ cli'.pc = "returned" /\ cli'.result = "Err"]_vars
    /\ [][cli.pc = "poll_stop" /\ cli' # cli
            => \/ /\ ~SocketExists \/ cli.polls = MaxPolls
                  /\ cli'.pc = "returned" /\ cli'.result = "Ok"
               \/ /\ SocketExists /\ cli.polls < MaxPolls
                  /\ cli'.pc = "poll_stop" /\ cli'.polls = cli.polls + 1]_vars
    /\ [][cli.pc = "stop" /\ cli'.pc = "returned"
            => ~DaemonAnswers /\ cli'.result = "Ok" /\ ~cli'.sent]_vars

\* start_detached removed nothing or a stale socket file, spawned the daemon,
\* slept between polls and returned Ok once the daemon had bound the socket.
C33_Witness ==
    /\ cli.pc = "returned"
    /\ cli.result = "Ok"
    /\ cli.spawned
    /\ cli.polls > 0
    /\ files.socket = "bound"
    /\ main = "accept"

\* stop found the daemon, sent Shutdown, and returned once the daemon had
\* removed its socket file.
C33_WitnessStop ==
    /\ cli.pc = "returned"
    /\ cli.sent
    /\ cli.polls > 0
    /\ main = "stopped"
    /\ files = NoFiles

(* C34: in every reachable state is_playing = true implies that            *)
(* current_track is set.                                                   *)
C34_PlayingHasTrack ==
    state.is_playing => state.current_track # NoTrack

\* The engine is playing an unfinished, unpaused source.
EnginePlaying == sink.src # NoTrack /\ ~sink.paused

(* C35: whenever the channel is empty and the worker waits for a command,  *)
(* is_playing is true exactly when the engine is playing an unfinished,    *)
(* unpaused source, and while the engine holds a source current_track is   *)
(* that source's track.                                                    *)
C35_StateAgreesWithEngine ==
    player /\ audio_q = <<>> /\ worker = "recv"
        => /\ state.is_playing = EnginePlaying
           /\ sink.src # NoTrack => state.current_track = sink.src

(* C36: when the monitor handles a finished track (the worker answered     *)
(* CheckFinished with true, so the sink was empty then) and the worker has *)
(* since played a track t successfully, leaving current_track = t and      *)
(* is_playing = true with t in the sink, the monitor's step keeps both.    *)
C36_FinishedKeepsNewerPlay ==
    [][monitor = "finished" /\ monitor' # monitor
         /\ sink.src # NoTrack /\ state.current_track = sink.src /\ state.is_playing
            => state'.current_track = state.current_track /\ state'.is_playing]_vars

(* C37: once a Shutdown has been served and the worker has terminated, the *)
(* engine holds no source and the state has is_playing = false and         *)
(* current_track = None.                                                   *)
C37_StoppedAtExit ==
    player /\ main = "done" /\ worker = "done"
        => /\ sink.src = NoTrack
           /\ ~state.is_playing
           /\ state.current_track = NoTrack

\* The number of commands the worker has taken from the channel.
Taken == Len(probe.pre_q) - Len(audio_q)

(* C38: with the engine initialised and the flag true, the n-th command    *)
(* sent is eventually taken and executed by the worker, for every n; and   *)
(* when the n-th is Play(t), eventually either a later command was sent or *)
(* it has been executed and, the sink holding t, the state shows           *)
(* current_track = t.                                                      *)
C38_EventuallyExecuted ==
    /\ \A n \in 1..(MaxBacklog + 1) :
         (player /\ Len(probe.pre_q) >= n) ~> (Taken >= n)
    /\ \A n \in 1..(MaxBacklog + 1) : \A t \in QueueTracks :
         (player /\ Len(probe.pre_q) = n /\ probe.pre_q[n] = Cmd("Play", t))
            ~> \/ Len(probe.pre_q) > n
               \/ Taken >= n /\ (sink.src = t => state.current_track = t)
    /\ [](running)

\* Two commands were sent, the second a Play; both are executed and the
\* state shows the track.
C38_Witness ==
    /\ player
    /\ running
    /\ Len(probe.pre_q) = 2
    /\ probe.pre_q[2] = Cmd("Play", 1)
    /\ audio_q = <<>>
    /\ sink.src = 1
    /\ state.current_track = 1

(* C39: when the listener cannot be created, or the PID file cannot be     *)
(* written where there was none, Daemon::run ends with neither thread      *)
(* spawned, no PID file and no socket file.                                *)
C39_FailedStartupLeavesNothing ==
    [][/\ main' = "failed"
       /\ main = "listen" \/ (main = "pid" /\ ~files.pid)
            => /\ worker' = "unspawned"
               /\ monitor' = "unspawned"
               /\ files' = NoFiles]_vars

====
